---- MODULE Spec2Model ----
(***************************************************************************)
(* The adaptive quadratic Bezier flattener (myVertex, myQuadraticVertex)   *)
(* and the ideal transformer calculation of the visualScienceTest          *)
(* repository.                                                             *)
(*                                                                         *)
(* Numbers.  A JavaScript number is modelled as one of                     *)
(*   undefined  (a `let` that was never assigned),                         *)
(*   NaN        (the result of arithmetic on undefined or NaN),            *)
(*   a finite value n / 2^e, kept exactly (n odd or e = 0).                *)
(* Sums, differences and halvings of such values are computed exactly,     *)
(* which is what IEEE doubles do for the magnitudes used here.  Products   *)
(* and the quotient t of getDistanceToLine are kept as exact fractions of  *)
(* unbounded integers (sequences of base-2^15 digits), so that a           *)
(* comparison with the tolerance is decided as over the reals.             *)
(***************************************************************************)
EXTENDS Integers, Sequences, FiniteSets, TLC

(***************************************************************************)
(* Unbounded naturals: little-endian digit sequences, no high zero digit.  *)
(***************************************************************************)
Base == 32768

RECURSIVE BigOf(_)
BigOf(n) == IF n = 0 THEN << >> ELSE << n % Base >> \o BigOf(n \div Base)

RECURSIVE BTrim(_)
BTrim(a) ==
  IF a = << >> THEN << >>
  ELSE IF a[Len(a)] = 0 THEN BTrim(SubSeq(a, 1, Len(a) - 1)) ELSE a

RECURSIVE BAddC(_, _, _)
BAddC(a, b, c) ==
  IF a = << >> /\ b = << >> THEN (IF c = 0 THEN << >> ELSE << c >>)
  ELSE LET x == IF a = << >> THEN 0 ELSE Head(a)
           y == IF b = << >> THEN 0 ELSE Head(b)
           s == x + y + c
       IN  << s % Base >> \o
           BAddC(IF a = << >> THEN a ELSE Tail(a),
                 IF b = << >> THEN b ELSE Tail(b), s \div Base)

BAdd(a, b) == BAddC(a, b, 0)

\* a - b for a >= b, digit by digit with borrow c
RECURSIVE BSubC(_, _, _)
BSubC(a, b, c) ==
  IF a = << >> THEN << >>
  ELSE LET y == IF b = << >> THEN 0 ELSE Head(b)
           s == Head(a) - y - c
       IN  << IF s < 0 THEN s + Base ELSE s >> \o
           BSubC(Tail(a), IF b = << >> THEN b ELSE Tail(b),
                 IF s < 0 THEN 1 ELSE 0)

BSub(a, b) == BTrim(BSubC(a, b, 0))

\* -1, 0, 1 as a < b, a = b, a > b
RECURSIVE BCmpFrom(_, _, _)
BCmpFrom(a, b, i) ==
  IF i = 0 THEN 0
  ELSE IF a[i] < b[i] THEN -1
  ELSE IF a[i] > b[i] THEN 1
  ELSE BCmpFrom(a, b, i - 1)

BCmp(a, b) ==
  IF Len(a) < Len(b) THEN -1
  ELSE IF Len(a) > Len(b) THEN 1
  ELSE BCmpFrom(a, b, Len(a))

BLess(a, b) == BCmp(a, b) = -1

\* a times one digit d, plus carry c
RECURSIVE BMulDigit(_, _, _)
BMulDigit(a, d, c) ==
  IF a = << >> THEN (IF c = 0 THEN << >> ELSE << c >>)
  ELSE LET s == Head(a) * d + c
       IN  << s % Base >> \o BMulDigit(Tail(a), d, s \div Base)

RECURSIVE BMul(_, _)
BMul(a, b) ==
  IF a = << >> \/ b = << >> THEN << >>
  ELSE BAdd(BTrim(BMulDigit(a, Head(b), 0)),
            LET r == BMul(a, Tail(b)) IN IF r = << >> THEN r ELSE << 0 >> \o r)

RECURSIVE BPow2(_)
BPow2(k) == IF k = 0 THEN << 1 >> ELSE BMulDigit(BPow2(k - 1), 2, 0)

(***************************************************************************)
(* Unbounded integers: sign s in {-1, 0, 1} and magnitude m.               *)
(***************************************************************************)
ZOf(n) == IF n = 0 THEN [s |-> 0, m |-> << >>]
          ELSE IF n < 0 THEN [s |-> -1, m |-> BigOf(-n)]
          ELSE [s |-> 1, m |-> BigOf(n)]

ZNeg(a) == [s |-> -a.s, m |-> a.m]

ZAdd(a, b) ==
  IF a.s = 0 THEN b
  ELSE IF b.s = 0 THEN a
  ELSE IF a.s = b.s THEN [s |-> a.s, m |-> BAdd(a.m, b.m)]
  ELSE LET c == BCmp(a.m, b.m)
       IN  IF c = 0 THEN [s |-> 0, m |-> << >>]
           ELSE IF c = 1 THEN [s |-> a.s, m |-> BSub(a.m, b.m)]
           ELSE [s |-> b.s, m |-> BSub(b.m, a.m)]

ZSub(a, b) == ZAdd(a, ZNeg(b))

ZMul(a, b) ==
  IF a.s = 0 \/ b.s = 0 THEN [s |-> 0, m |-> << >>]
  ELSE [s |-> a.s * b.s, m |-> BMul(a.m, b.m)]

ZLess(a, b) == ZSub(a, b).s = -1

(***************************************************************************)
(* JavaScript numbers.                                                     *)
(***************************************************************************)
Undefined == [k |-> "undefined", n |-> 0, e |-> 0]
NaN == [k |-> "NaN", n |-> 0, e |-> 0]

RECURSIVE Pow2(_)
Pow2(k) == IF k = 0 THEN 1 ELSE 2 * Pow2(k - 1)

\* the finite value n / 2^e in lowest terms
RECURSIVE Fin(_, _)
Fin(n, e) ==
  IF n = 0 THEN [k |-> "num", n |-> 0, e |-> 0]
  ELSE IF e > 0 /\ n % 2 = 0 THEN Fin(n \div 2, e - 1)
  ELSE [k |-> "num", n |-> n, e |-> e]

IsFinite(a) == a.k = "num"

Max(a, b) == IF a >= b THEN a ELSE b

\* the integer a * 2^E of a finite a with a.e <= E
Scaled(a, E) == a.n * Pow2(E - a.e)

\* JavaScript a + b, a - b, a / 2: NaN as soon as an operand is undefined or NaN
Plus(a, b) ==
  IF IsFinite(a) /\ IsFinite(b)
  THEN LET E == Max(a.e, b.e) IN Fin(Scaled(a, E) + Scaled(b, E), E)
  ELSE NaN

Minus(a, b) ==
  IF IsFinite(a) /\ IsFinite(b)
  THEN LET E == Max(a.e, b.e) IN Fin(Scaled(a, E) - Scaled(b, E), E)
  ELSE NaN

Half(a) == IF IsFinite(a) THEN Fin(a.n, a.e + 1) ELSE NaN

(***************************************************************************)
(* Distances.  A distance is NaN or the non-negative real sqrt(num / den), *)
(* kept by its square.                                                     *)
(***************************************************************************)
DistNaN == [nan |-> TRUE, num |-> << >>, den |-> << 1 >>]

\* p5's dist: the length of the vector (nx / d, ny / d) / 2^E
dist(nx, ny, d, E) ==
  [nan |-> FALSE,
   num |-> BAdd(ZMul(nx, nx).m, ZMul(ny, ny).m),
   den |-> BMul(BMul(d, d), BPow2(2 * E))]

\* the JavaScript comparison d < tol of a distance with a finite number
DistLess(d, tol) ==
  /\ ~d.nan
  /\ tol.n > 0
  /\ BLess(BMul(d.num, BPow2(2 * tol.e)),
           BMul(BMul(BigOf(tol.n), BigOf(tol.n)), d.den))

\* d = tol, for a distance and a finite number
DistEq(d, tol) ==
  /\ ~d.nan
  /\ tol.n >= 0
  /\ BMul(d.num, BPow2(2 * tol.e)) = BMul(BMul(BigOf(tol.n), BigOf(tol.n)), d.den)

flatnessTolerance == Fin(1, 1)

maxRecursionDepth == 8

\* getDistanceToLine whose last line measures only the x offset to the
\* closest point: pInstance.dist(px, py, closestX, py)
getDistanceToLine_IgnoresY(px, py, x1, y1, x2, y2) ==
  IF \E v \in {px, py, x1, y1, x2, y2} : ~IsFinite(v)
  THEN DistNaN
  ELSE
    LET E  == Max(Max(Max(px.e, py.e), Max(x1.e, y1.e)), Max(x2.e, y2.e))
        one == << 1 >>
        dx == ZOf(Scaled(x2, E) - Scaled(x1, E))
        dy == ZOf(Scaled(y2, E) - Scaled(y1, E))
        lenSq == ZAdd(ZMul(dx, dx), ZMul(dy, dy))
        ux == ZOf(Scaled(px, E) - Scaled(x1, E))
        uy == ZOf(Scaled(py, E) - Scaled(y1, E))
        vx == ZOf(Scaled(px, E) - Scaled(x2, E))
        vy == ZOf(Scaled(py, E) - Scaled(y2, E))
        tn == ZAdd(ZMul(ux, dx), ZMul(uy, dy))
        cx == ZSub(ZMul(ux, lenSq), ZMul(tn, dx))
    IN  IF lenSq.s = 0 THEN dist(ux, uy, one, E)
        ELSE IF tn.s < 0 THEN dist(ux, uy, one, E)
        ELSE IF ZLess(lenSq, tn) THEN dist(vx, vy, one, E)
        ELSE dist(cx, ZOf(0), lenSq.m, E)

\* getDistanceToLine without lines 104-106: with lenSq = 0 the parameter t
\* is 0 / 0, no comparison succeeds and the distance is NaN
getDistanceToLine_NoPointCase(px, py, x1, y1, x2, y2) ==
  IF \E v \in {px, py, x1, y1, x2, y2} : ~IsFinite(v)
  THEN DistNaN
  ELSE
    LET E  == Max(Max(Max(px.e, py.e), Max(x1.e, y1.e)), Max(x2.e, y2.e))
        one == << 1 >>
        dx == ZOf(Scaled(x2, E) - Scaled(x1, E))
        dy == ZOf(Scaled(y2, E) - Scaled(y1, E))
        lenSq == ZAdd(ZMul(dx, dx), ZMul(dy, dy))
        ux == ZOf(Scaled(px, E) - Scaled(x1, E))
        uy == ZOf(Scaled(py, E) - Scaled(y1, E))
        vx == ZOf(Scaled(px, E) - Scaled(x2, E))
        vy == ZOf(Scaled(py, E) - Scaled(y2, E))
        tn == ZAdd(ZMul(ux, dx), ZMul(uy, dy))
        cx == ZSub(ZMul(ux, lenSq), ZMul(tn, dx))
        cy == ZSub(ZMul(uy, lenSq), ZMul(tn, dy))
    IN  IF lenSq.s = 0 THEN DistNaN
        ELSE IF tn.s < 0 THEN dist(ux, uy, one, E)
        ELSE IF ZLess(lenSq, tn) THEN dist(vx, vy, one, E)
        ELSE dist(cx, cy, lenSq.m, E)

\* getDistanceToLine without lines 113-114: the distance to the line
\* through the two points, wherever the projection falls
getDistanceToLine_Unclamped(px, py, x1, y1, x2, y2) ==
  IF \E v \in {px, py, x1, y1, x2, y2} : ~IsFinite(v)
  THEN DistNaN
  ELSE
    LET E  == Max(Max(Max(px.e, py.e), Max(x1.e, y1.e)), Max(x2.e, y2.e))
        one == << 1 >>
        dx == ZOf(Scaled(x2, E) - Scaled(x1, E))
        dy == ZOf(Scaled(y2, E) - Scaled(y1, E))
        lenSq == ZAdd(ZMul(dx, dx), ZMul(dy, dy))
        ux == ZOf(Scaled(px, E) - Scaled(x1, E))
        uy == ZOf(Scaled(py, E) - Scaled(y1, E))
        tn == ZAdd(ZMul(ux, dx), ZMul(uy, dy))
        cx == ZSub(ZMul(ux, lenSq), ZMul(tn, dx))
        cy == ZSub(ZMul(uy, lenSq), ZMul(tn, dy))
    IN  IF lenSq.s = 0 THEN dist(ux, uy, one, E)
        ELSE dist(cx, cy, lenSq.m, E)

getDistanceToLine(px, py, x1, y1, x2, y2) ==
  IF \E v \in {px, py, x1, y1, x2, y2} : ~IsFinite(v)
  THEN DistNaN   \* every intermediate value is NaN and no comparison succeeds
  ELSE
    LET E  == Max(Max(Max(px.e, py.e), Max(x1.e, y1.e)), Max(x2.e, y2.e))
        one == << 1 >>
        dx == ZOf(Scaled(x2, E) - Scaled(x1, E))
        dy == ZOf(Scaled(y2, E) - Scaled(y1, E))
        lenSq == ZAdd(ZMul(dx, dx), ZMul(dy, dy))
        ux == ZOf(Scaled(px, E) - Scaled(x1, E))
        uy == ZOf(Scaled(py, E) - Scaled(y1, E))
        vx == ZOf(Scaled(px, E) - Scaled(x2, E))
        vy == ZOf(Scaled(py, E) - Scaled(y2, E))
        \* t = tn / lenSq
        tn == ZAdd(ZMul(ux, dx), ZMul(uy, dy))
        \* px - closestX = px - x1 - t * dx = (ux * lenSq - tn * dx) / lenSq
        cx == ZSub(ZMul(ux, lenSq), ZMul(tn, dx))
        cy == ZSub(ZMul(uy, lenSq), ZMul(tn, dy))
    IN  IF lenSq.s = 0 THEN dist(ux, uy, one, E)
        ELSE IF tn.s < 0 THEN dist(ux, uy, one, E)
        ELSE IF ZLess(lenSq, tn) THEN dist(vx, vy, one, E)
        ELSE dist(cx, cy, lenSq.m, E)

(***************************************************************************)
(* The flattener.  _recursiveQuadraticVertex returns what one call does:   *)
(*   out    the points it passes to pInstance.vertex, in order;            *)
(*   calls  one record per invocation of the function, in call order: its  *)
(*          arguments, whether the distance was computed (`||` skips it at *)
(*          the depth ceiling) and its value d, whether the base case was  *)
(*          taken, the points emitted by this invocation and the ones it   *)
(*          makes, and the number of invocations (size) that is.           *)
(***************************************************************************)
NotTested == [nan |-> FALSE, num |-> << >>, den |-> << >>]

\* isBaseCase with the tolerance test written `<=`
isBaseCase_LessOrEqual(depth, d) ==
  \/ depth >= maxRecursionDepth
  \/ DistLess(d, flatnessTolerance)
  \/ DistEq(d, flatnessTolerance)

\* isBaseCase with the depth test written `>`
isBaseCase_DepthGreater(depth, d) ==
  \/ depth > maxRecursionDepth
  \/ DistLess(d, flatnessTolerance)

\* isBaseCase that takes a distance that is not a number for a flat curve
isBaseCase_NaNIsFlat(depth, d) ==
  \/ depth >= maxRecursionDepth
  \/ d.nan
  \/ DistLess(d, flatnessTolerance)

\* the base-case condition of line 156; d is the value of the call of
\* getDistanceToLine, which `||` evaluates only when depth is below the ceiling
isBaseCase(depth, d) ==
  \/ depth >= maxRecursionDepth
  \/ DistLess(d, flatnessTolerance)

RECURSIVE _recursiveQuadraticVertex(_, _, _, _, _, _, _)

\* subdivide that also emits the split point M012 before the second half
subdivide_EmitsSplitTwice(x0, y0, x1, y1, x2, y2, depth) ==
  LET midX01 == Half(Plus(x0, x1))
      midY01 == Half(Plus(y0, y1))
      midX12 == Half(Plus(x1, x2))
      midY12 == Half(Plus(y1, y2))
      midX012 == Half(Plus(midX01, midX12))
      midY012 == Half(Plus(midY01, midY12))
      first == _recursiveQuadraticVertex(x0, y0, midX01, midY01,
                                         midX012, midY012, depth + 1)
      second == _recursiveQuadraticVertex(midX012, midY012, midX12, midY12,
                                          x2, y2, depth + 1)
  IN  [out |-> first.out \o << << midX012, midY012 >> >> \o second.out,
       calls |-> first.calls \o second.calls]

\* subdivide that splits at the control point instead of M012
subdivide_SplitAtControl(x0, y0, x1, y1, x2, y2, depth) ==
  LET midX01 == Half(Plus(x0, x1))
      midY01 == Half(Plus(y0, y1))
      midX12 == Half(Plus(x1, x2))
      midY12 == Half(Plus(y1, y2))
      midX012 == x1
      midY012 == y1
      first == _recursiveQuadraticVertex(x0, y0, midX01, midY01,
                                         midX012, midY012, depth + 1)
      second == _recursiveQuadraticVertex(midX012, midY012, midX12, midY12,
                                          x2, y2, depth + 1)
  IN  [out |-> first.out \o second.out, calls |-> first.calls \o second.calls]

\* subdivide that flattens the second half before the first
subdivide_SecondHalfFirst(x0, y0, x1, y1, x2, y2, depth) ==
  LET midX01 == Half(Plus(x0, x1))
      midY01 == Half(Plus(y0, y1))
      midX12 == Half(Plus(x1, x2))
      midY12 == Half(Plus(y1, y2))
      midX012 == Half(Plus(midX01, midX12))
      midY012 == Half(Plus(midY01, midY12))
      first == _recursiveQuadraticVertex(x0, y0, midX01, midY01,
                                         midX012, midY012, depth + 1)
      second == _recursiveQuadraticVertex(midX012, midY012, midX12, midY12,
                                          x2, y2, depth + 1)
  IN  [out |-> second.out \o first.out, calls |-> second.calls \o first.calls]

\* the recursive case, lines 161-176
subdivide(x0, y0, x1, y1, x2, y2, depth) ==
  LET midX01 == Half(Plus(x0, x1))
      midY01 == Half(Plus(y0, y1))
      midX12 == Half(Plus(x1, x2))
      midY12 == Half(Plus(y1, y2))
      midX012 == Half(Plus(midX01, midX12))
      midY012 == Half(Plus(midY01, midY12))
      first == _recursiveQuadraticVertex(x0, y0, midX01, midY01,
                                         midX012, midY012, depth + 1)
      second == _recursiveQuadraticVertex(midX012, midY012, midX12, midY12,
                                          x2, y2, depth + 1)
  IN  [out |-> first.out \o second.out, calls |-> first.calls \o second.calls]

_recursiveQuadraticVertex(x0, y0, x1, y1, x2, y2, depth) ==
  LET d == getDistanceToLine(x1, y1, x0, y0, x2, y2)
      base == isBaseCase(depth, d)
      r == IF base THEN [out |-> << << x2, y2 >> >>, calls |-> << >>]
           ELSE subdivide(x0, y0, x1, y1, x2, y2, depth)
      tested == depth < maxRecursionDepth
  IN  [out |-> r.out,
       calls |-> << [x0 |-> x0, y0 |-> y0, x1 |-> x1, y1 |-> y1,
                     x2 |-> x2, y2 |-> y2, depth |-> depth,
                     tested |-> tested,
                     d |-> IF tested THEN d ELSE NotTested,
                     base |-> base, out |-> r.out,
                     size |-> 1 + Len(r.calls)] >> \o r.calls]

(***************************************************************************)
(* The numbers of calculateTransformerResults: exact fractions n / d with  *)
(* a sign (zero has one too), the two infinities and NaN, so that a        *)
(* division by zero gives what it gives in the program.                    *)
(***************************************************************************)
RECURSIVE Gcd(_, _)
Gcd(a, b) == IF b = 0 THEN a ELSE Gcd(b, a % b)

Rat(neg, n, d) ==
  LET g == Gcd(n, d)
  IN  [k |-> "num", neg |-> neg, n |-> n \div g, d |-> d \div g]

Num(i) == IF i < 0 THEN Rat(TRUE, -i, 1) ELSE Rat(FALSE, i, 1)

Infinity(neg) == [k |-> "inf", neg |-> neg, n |-> 1, d |-> 1]

NotANumber == [k |-> "NaN", neg |-> FALSE, n |-> 0, d |-> 1]

IsZero(a) == a.k = "num" /\ a.n = 0

\* a * b
Times(a, b) ==
  IF a.k = "NaN" \/ b.k = "NaN" THEN NotANumber
  ELSE IF (a.k = "inf" /\ IsZero(b)) \/ (IsZero(a) /\ b.k = "inf")
       THEN NotANumber
  ELSE IF a.k = "inf" \/ b.k = "inf" THEN Infinity(a.neg # b.neg)
  ELSE Rat(a.neg # b.neg, a.n * b.n, a.d * b.d)

\* a / b
Over(a, b) ==
  IF a.k = "NaN" \/ b.k = "NaN" THEN NotANumber
  ELSE IF a.k = "inf" /\ b.k = "inf" THEN NotANumber
  ELSE IF IsZero(a) /\ IsZero(b) THEN NotANumber
  ELSE IF a.k = "inf" THEN Infinity(a.neg # b.neg)
  ELSE IF b.k = "inf" THEN Rat(a.neg # b.neg, 0, 1)
  ELSE IF IsZero(b) THEN Infinity(a.neg # b.neg)
  ELSE Rat(a.neg # b.neg, a.n * b.d, a.d * b.n)

\* calculateTransformerResults with the turns ratio upside down: Np / Ns
calculateTransformerResults_InvertedRatio(primaryVoltage, primaryTurns, secondaryTurns, loadResistance) ==
  LET Np == primaryTurns
      Ns == secondaryTurns
      Vp == primaryVoltage
      secondaryVoltage == Times(Num(Vp), Over(Num(Np), Num(Ns)))
      secondaryCurrent == Over(secondaryVoltage, Num(loadResistance))
      secondaryPower == Times(secondaryVoltage, secondaryCurrent)
      primaryPower == secondaryPower
      primaryCurrent == IF Vp > 0 THEN Over(primaryPower, Num(Vp)) ELSE Num(0)
      transformerType == IF Ns < Np THEN "Step-Down"
                         ELSE IF Ns > Np THEN "Step-Up" ELSE "Isolation"
  IN  [transformerType |-> transformerType,
       primaryCurrent |-> primaryCurrent,
       primaryPower |-> primaryPower,
       secondaryVoltage |-> secondaryVoltage,
       secondaryCurrent |-> secondaryCurrent,
       secondaryPower |-> secondaryPower]

\* calculateTransformerResults whose first test is Ns >= Np
calculateTransformerResults_UpWhenEqual(primaryVoltage, primaryTurns, secondaryTurns, loadResistance) ==
  LET Np == primaryTurns
      Ns == secondaryTurns
      Vp == primaryVoltage
      secondaryVoltage == Times(Num(Vp), Over(Num(Ns), Num(Np)))
      secondaryCurrent == Over(secondaryVoltage, Num(loadResistance))
      secondaryPower == Times(secondaryVoltage, secondaryCurrent)
      primaryPower == secondaryPower
      primaryCurrent == IF Vp > 0 THEN Over(primaryPower, Num(Vp)) ELSE Num(0)
      transformerType == IF Ns < Np THEN "Step-Down"
                         ELSE IF Ns >= Np THEN "Step-Up" ELSE "Isolation"
  IN  [transformerType |-> transformerType,
       primaryCurrent |-> primaryCurrent,
       primaryPower |-> primaryPower,
       secondaryVoltage |-> secondaryVoltage,
       secondaryCurrent |-> secondaryCurrent,
       secondaryPower |-> secondaryPower]

\* calculateTransformerResults without the Vp > 0 test of line 48
calculateTransformerResults_DividesAlways(primaryVoltage, primaryTurns, secondaryTurns, loadResistance) ==
  LET Np == primaryTurns
      Ns == secondaryTurns
      Vp == primaryVoltage
      secondaryVoltage == Times(Num(Vp), Over(Num(Ns), Num(Np)))
      secondaryCurrent == Over(secondaryVoltage, Num(loadResistance))
      secondaryPower == Times(secondaryVoltage, secondaryCurrent)
      primaryPower == secondaryPower
      primaryCurrent == Over(primaryPower, Num(Vp))
      transformerType == IF Ns < Np THEN "Step-Down"
                         ELSE IF Ns > Np THEN "Step-Up" ELSE "Isolation"
  IN  [transformerType |-> transformerType,
       primaryCurrent |-> primaryCurrent,
       primaryPower |-> primaryPower,
       secondaryVoltage |-> secondaryVoltage,
       secondaryCurrent |-> secondaryCurrent,
       secondaryPower |-> secondaryPower]

\* part_005 lines 24-63.  The second `if` of lines 52-53 is tried after the
\* first, so it decides when it holds.
calculateTransformerResults(primaryVoltage, primaryTurns, secondaryTurns, loadResistance) ==
  LET Np == primaryTurns
      Ns == secondaryTurns
      Vp == primaryVoltage
      secondaryVoltage == Times(Num(Vp), Over(Num(Ns), Num(Np)))
      secondaryCurrent == Over(secondaryVoltage, Num(loadResistance))
      secondaryPower == Times(secondaryVoltage, secondaryCurrent)
      primaryPower == secondaryPower
      primaryCurrent == IF Vp > 0 THEN Over(primaryPower, Num(Vp)) ELSE Num(0)
      transformerType == IF Ns < Np THEN "Step-Down"
                         ELSE IF Ns > Np THEN "Step-Up" ELSE "Isolation"
  IN  [transformerType |-> transformerType,
       primaryCurrent |-> primaryCurrent,
       primaryPower |-> primaryPower,
       secondaryVoltage |-> secondaryVoltage,
       secondaryCurrent |-> secondaryCurrent,
       secondaryPower |-> secondaryPower]

(***************************************************************************)
(* State.                                                                  *)
(*   lastX, lastY  the module-level cursor of the flattener                *)
(*   path          the points passed to pInstance.vertex since beginShape  *)
(*   call          the most recent call: its name, the cursor it found     *)
(*                 (x0, y0), its arguments, what it emitted (out) and, for *)
(*                 a curve, the invocations of the recursion (calls)       *)
(*   nCalls        the flattener calls made since beginShape               *)
(*   pc            pc[k]: the number of calls shape construction k has     *)
(*                 made of its two (a myVertex, then a myQuadraticVertex)  *)
(*   trace         who called last (by) and just before (prevBy), where    *)
(*                 each construction's own latest call ended (cursorOf),   *)
(*                 and where the last caller's own previous call had ended *)
(*                 (startOf); 0 stands for no construction                 *)
(*   args          the arguments of calculateTransformerResults            *)
(*   results       what it returned, NoResults before the call             *)
(*   ui            the React state of TransformerCanvas as last set:       *)
(*                 primaryVoltage, primaryTurns, secondaryTurns and        *)
(*                 p5Instance (0 for null, else the effect run whose       *)
(*                 instance was handed to setP5Instance)                   *)
(*   rendered      the values of that state in the latest render           *)
(*   latestState   the ref latestState.current                             *)
(*   hook          useP5Sketch: whether the component is mounted, whether  *)
(*                 containerRef.current is set, and for every run of the   *)
(*                 effect its closure (isMounted, p5Instance) and whether  *)
(*                 its import has settled                                  *)
(*   drawing       the redraws of the sketch: the pair of turn counts the  *)
(*                 last draw used, the instance redrawn, and a bit that    *)
(*                 flips at every redraw                                   *)
(*   resetDone     whether the control used last was the reset button      *)
(*   panel         a DraggablePanel: its props isDraggable and             *)
(*                 initialPosition (stableProp: the parent passes the same *)
(*                 object at every render) and its state position,         *)
(*                 isReady, isDragging, dragOffset                         *)
(*   listeners     the window's mousemove and mouseup listeners of the     *)
(*                 panel: whether they are attached, and the isDragging    *)
(*                 and dragOffset they see                                 *)
(*   events        the mouse events delivered so far                       *)
(*   pointer       where the mouse was at the last mousedown that          *)
(*                 handleMouseDown did not turn away (down), and the       *)
(*                 position the panel had then (origin)                    *)
(*   probe         a point and a segment given to getDistanceToLine        *)
(*   measured      what it returned, NotTested before the call             *)
(***************************************************************************)
VARIABLES lastX, lastY, path, call, nCalls, pc, trace, args, results,
          ui, rendered, latestState, hook, drawing, resetDone,
          panel, listeners, events, pointer, probe, measured, prog

flattenerVars == << lastX, lastY, path, call, nCalls >>

builderVars == << pc, trace >>

calcVars == << args, results >>

canvasVars == << ui, rendered, latestState, hook, drawing, resetDone >>

panelVars == << panel, listeners, events, pointer >>

probeVars == << probe, measured >>

drawVars == << prog >>

componentVars == 
  << canvasVars, panelVars, probeVars, drawVars >>

vars == << lastX, lastY, path, call, nCalls, pc, trace, args, results,
           ui, rendered, latestState, hook, drawing, resetDone,
           panel, listeners, events, pointer, probe, measured, prog >>

\* Bounds of the model: the coordinates offered to the flattener are the
\* whole pixels 0..MaxCoord; a shape is given at most MaxCalls calls.
MaxCoord == 3

MaxCalls == 2

Coords == { Fin(k, 0) : k \in 0..MaxCoord }

\* the coordinates used where whole sequences of calls are explored
SeqCoords == { Fin(0, 0), Fin(MaxCoord, 0) }

NoCall == [op |-> "none", x0 |-> Undefined, y0 |-> Undefined,
           cx |-> Undefined, cy |-> Undefined,
           x2 |-> Undefined, y2 |-> Undefined, out |-> << >>, calls |-> << >>]

\* the shape constructions whose calls may alternate
Constructions == {1, 2}

NoPoint == << Undefined, Undefined >>

NoTrace == [by |-> 0, prevBy |-> 0, startOf |-> NoPoint,
            cursorOf |-> [k \in Constructions |-> NoPoint]]

\* TransformerCanvas.tsx lines 17-20
defaultVoltage == 40

loadResistance == 10

\* the state TransformerCanvas starts with (lines 39-51) and its load
DefaultArgs == [Vp |-> defaultVoltage, Np |-> 1, Ns |-> 1,
                R |-> loadResistance]

NoResults == [transformerType |-> "none"]

\* TransformerCanvas.tsx lines 39-57: the state of the first render
DefaultState == [primaryVoltage |-> defaultVoltage, primaryTurns |-> 1,
                 secondaryTurns |-> 1, p5Instance |-> 0]

\* TransformerCanvas.tsx lines 64-65
TurnsOf(s) == [primaryTurns |-> s.primaryTurns,
               secondaryTurns |-> s.secondaryTurns]

NoDrawing == [drawn |-> [primaryTurns |-> 0, secondaryTurns |-> 0],
              by |-> 0, tick |-> 0]

\* TransformerCanvas has rendered once; no effect has run yet
InitCanvas ==
  /\ ui = DefaultState
  /\ rendered = DefaultState
  /\ latestState = TurnsOf(DefaultState)
  /\ hook = [phase |-> "mounted", containerRef |-> TRUE, runs |-> << >>,
             setCalls |-> 0]
  /\ drawing = NoDrawing
  /\ resetDone = FALSE

\* Bounds of the model: the mouse is at the whole pixels 0..MaxMouse of
\* both axes; at most MaxEvents mouse events are delivered.
MaxMouse == 2

MaxEvents == 4

Mouse == [x : 0..MaxMouse, y : 0..MaxMouse]

\* the widths of the window, which place the ControlPanel
WindowWidths == { 320, 1280 }

\* ResultsPanel.tsx line 43
ResultsPanelPosition == [x |-> 32, y |-> 32]

\* DraggablePanel.tsx lines 27-41: the props and the state of the first
\* render
NewPanel(isDraggable, stableProp, initialPosition) ==
  [isDraggable |-> isDraggable, stableProp |-> stableProp,
   initialPosition |-> initialPosition, position |-> initialPosition,
   isReady |-> FALSE, isDragging |-> FALSE, dragOffset |-> [x |-> 0, y |-> 0]]

\* DraggablePanel.tsx lines 72-95: the effect with the dependencies
\* [isDragging, dragOffset] leaves the window listeners attached iff
\* isDragging, and they see the isDragging and dragOffset of that render
dragEffect(p) ==
  [attached |-> p.isDragging, isDragging |-> p.isDragging,
   dragOffset |-> p.dragOffset]

\* no mouse event yet
NoPointer == [down |-> [x |-> 0, y |-> 0], origin |-> [x |-> 0, y |-> 0]]

\* the panel of ResultsPanel (lines 41-45), no mouse event yet
InitResultsPanel ==
  /\ panel = NewPanel(FALSE, FALSE, ResultsPanelPosition)
  /\ listeners = dragEffect(panel)
  /\ events = << >>
  /\ pointer = NoPointer

NoProbe == [px |-> Undefined, py |-> Undefined, x1 |-> Undefined,
            y1 |-> Undefined, x2 |-> Undefined, y2 |-> Undefined]

\* no distance has been asked for
InitProbe ==
  /\ probe = NoProbe
  /\ measured = NotTested

\* no call has been made by a builder
NoCallMade ==
  [by |-> << "none", 0 >>, op |-> "none", cx |-> Undefined, cy |-> Undefined,
   x |-> Undefined, y |-> Undefined]

\* no drawing is under way: calls is the list of the calls still to make
\* and at the position in it, draws counts the drawings started, width is
\* the width of the canvas, rect the arguments of a rectangle drawn on its
\* own, made is the last call made, prev the last flattener call made
\* before it, first the first call made by the builder of made, and ends
\* tells whether made was the last call of its builder
NoProgram ==
  [calls |-> << >>, at |-> 0, draws |-> 0, width |-> 0,
   rect |-> [width |-> 0, height |-> 0, radius |-> 0, direction |-> "none"],
   made |-> NoCallMade, prev |-> NoCallMade, first |-> NoCallMade,
   ends |-> FALSE]

InitComponents ==
  /\ InitCanvas
  /\ InitResultsPanel
  /\ InitProbe
  /\ prog = NoProgram

\* no construction has started, nothing has been calculated
InitOthers ==
  /\ pc = [k \in Constructions |-> 0]
  /\ trace = NoTrace
  /\ args = DefaultArgs
  /\ results = NoResults
  /\ InitComponents

Init ==
  /\ lastX = Undefined
  /\ lastY = Undefined
  /\ path = << >>
  /\ call = NoCall
  /\ nCalls = 0
  /\ InitOthers

\* myVertex that updates lastX and forgets lastY
myVertex_ForgetsLastY(x, y) ==
  /\ path' = Append(path, << x, y >>)
  /\ lastX' = x
  /\ lastY' = lastY
  /\ call' = [op |-> "myVertex", x0 |-> lastX, y0 |-> lastY,
              cx |-> Undefined, cy |-> Undefined, x2 |-> x, y2 |-> y,
              out |-> << << x, y >> >>, calls |-> << >>]
  /\ nCalls' = nCalls + 1

\* myVertex that starts the vertex list again instead of appending
myVertex_RestartsPath(x, y) ==
  /\ path' = << << x, y >> >>
  /\ lastX' = x
  /\ lastY' = y
  /\ call' = [op |-> "myVertex", x0 |-> lastX, y0 |-> lastY,
              cx |-> Undefined, cy |-> Undefined, x2 |-> x, y2 |-> y,
              out |-> << << x, y >> >>, calls |-> << >>]
  /\ nCalls' = nCalls + 1

myVertex(x, y) ==
  /\ path' = Append(path, << x, y >>)
  /\ lastX' = x
  /\ lastY' = y
  /\ call' = [op |-> "myVertex", x0 |-> lastX, y0 |-> lastY,
              cx |-> Undefined, cy |-> Undefined, x2 |-> x, y2 |-> y,
              out |-> << << x, y >> >>, calls |-> << >>]
  /\ nCalls' = nCalls + 1

\* myQuadraticVertex without lines 206-207: the cursor stays where it was
myQuadraticVertex_KeepsCursor(cx, cy, x2, y2) ==
  LET x0 == lastX
      y0 == lastY
      r == _recursiveQuadraticVertex(x0, y0, cx, cy, x2, y2, 0)
  IN  /\ path' = path \o r.out
      /\ UNCHANGED << lastX, lastY >>
      /\ call' = [op |-> "myQuadraticVertex", x0 |-> x0, y0 |-> y0,
                  cx |-> cx, cy |-> cy, x2 |-> x2, y2 |-> y2,
                  out |-> r.out, calls |-> r.calls]
      /\ nCalls' = nCalls + 1

\* myQuadraticVertex that leaves the cursor at the control point
myQuadraticVertex_CursorAtControl(cx, cy, x2, y2) ==
  LET x0 == lastX
      y0 == lastY
      r == _recursiveQuadraticVertex(x0, y0, cx, cy, x2, y2, 0)
  IN  /\ path' = path \o r.out
      /\ lastX' = cx
      /\ lastY' = cy
      /\ call' = [op |-> "myQuadraticVertex", x0 |-> x0, y0 |-> y0,
                  cx |-> cx, cy |-> cy, x2 |-> x2, y2 |-> y2,
                  out |-> r.out, calls |-> r.calls]
      /\ nCalls' = nCalls + 1

myQuadraticVertex(cx, cy, x2, y2) ==
  LET x0 == lastX
      y0 == lastY
      r == _recursiveQuadraticVertex(x0, y0, cx, cy, x2, y2, 0)
  IN  /\ path' = path \o r.out
      /\ lastX' = x2
      /\ lastY' = y2
      /\ call' = [op |-> "myQuadraticVertex", x0 |-> x0, y0 |-> y0,
                  cx |-> cx, cy |-> cy, x2 |-> x2, y2 |-> y2,
                  out |-> r.out, calls |-> r.calls]
      /\ nCalls' = nCalls + 1

\* p5's beginShape, called by the shape builders: a new, empty vertex list.
\* The cursor is module state and is not touched.
beginShape ==
  /\ path' = << >>
  /\ nCalls' = 0
  /\ call' = [NoCall EXCEPT !.op = "beginShape"]
  /\ UNCHANGED << lastX, lastY >>

(***************************************************************************)
(* Spec: any sequence of shapes, each of at most MaxCalls flattener calls. *)
(***************************************************************************)
Next ==
  \/ beginShape /\ UNCHANGED << builderVars, calcVars, componentVars >>
  \/ \E x, y \in SeqCoords :
       /\ nCalls < MaxCalls
       /\ myVertex(x, y)
       /\ UNCHANGED << builderVars, calcVars, componentVars >>
  \/ \E cx, cy, x2, y2 \in SeqCoords :
       /\ nCalls < MaxCalls
       /\ myQuadraticVertex(cx, cy, x2, y2)
       /\ UNCHANGED << builderVars, calcVars, componentVars >>

Spec == Init /\ [][Next]_vars

(***************************************************************************)
(* SpecCurve: one flattener call, with arguments anywhere on the grid,     *)
(* made on an empty path with the cursor as some earlier shape left it:    *)
(* never set, or at a grid point.                                          *)
(***************************************************************************)
InitCurve ==
  /\ \/ lastX = Undefined /\ lastY = Undefined
     \/ lastX \in Coords /\ lastY \in Coords
  /\ path = << >>
  /\ call = NoCall
  /\ nCalls = 0
  /\ InitOthers

\* the arguments tried for a curve: the whole grid from a set cursor, the
\* grid's corners from a cursor never set (all its interior points are NaN)
CurveArgs == IF lastX = Undefined THEN SeqCoords ELSE Coords

NextCurve ==
  \/ \E x, y \in Coords :
       /\ nCalls = 0
       /\ myVertex(x, y)
       /\ UNCHANGED << builderVars, calcVars, componentVars >>
  \/ \E cx, cy, x2, y2 \in CurveArgs :
       /\ nCalls = 0
       /\ myQuadraticVertex(cx, cy, x2, y2)
       /\ UNCHANGED << builderVars, calcVars, componentVars >>

SpecCurve == InitCurve /\ [][NextCurve]_vars

(***************************************************************************)
(* SpecInterleave: two shape constructions, each the shortest the builders *)
(* make (a myVertex, then a myQuadraticVertex from it, as cubicBorders.ts  *)
(* lines 47-49), with their calls taken in any order.  Both call the one   *)
(* flattener of the module.                                                *)
(***************************************************************************)
\* what construction k's step that made the call now in call' leaves in trace
Traced(k) ==
  [by |-> k,
   prevBy |-> trace.by,
   startOf |-> trace.cursorOf[k],
   cursorOf |-> [trace.cursorOf EXCEPT ![k] = << call'.x2, call'.y2 >>]]

startsPath(k) ==
  /\ pc[k] = 0
  /\ \E x, y \in SeqCoords : myVertex(x, y)
  /\ pc' = [pc EXCEPT ![k] = 1]
  /\ trace' = Traced(k)
  /\ UNCHANGED << calcVars, componentVars >>

drawsCurve(k) ==
  /\ pc[k] = 1
  /\ \E cx, cy, x2, y2 \in SeqCoords : myQuadraticVertex(cx, cy, x2, y2)
  /\ pc' = [pc EXCEPT ![k] = 2]
  /\ trace' = Traced(k)
  /\ UNCHANGED << calcVars, componentVars >>

NextInterleave ==
  \/ \E k \in Constructions : startsPath(k)
  \/ \E k \in Constructions : drawsCurve(k)

SpecInterleave == Init /\ [][NextInterleave]_vars

(***************************************************************************)
(* SpecScenario: one curve on the coarse grid {0, 5, 10}^2, from a cursor  *)
(* on that grid.                                                           *)
(***************************************************************************)
ScenarioCoords == { Fin(0, 0), Fin(5, 0), Fin(10, 0) }

InitScenario ==
  /\ lastX \in ScenarioCoords
  /\ lastY \in ScenarioCoords
  /\ path = << >>
  /\ call = NoCall
  /\ nCalls = 0
  /\ InitOthers

NextScenario ==
  \E cx, cy, x2, y2 \in ScenarioCoords :
    /\ nCalls = 0
    /\ myQuadraticVertex(cx, cy, x2, y2)
    /\ UNCHANGED << builderVars, calcVars, componentVars >>

SpecScenario == InitScenario /\ [][NextScenario]_vars

(***************************************************************************)
(* SpecCalc: calculateTransformerResults applied once to arguments drawn   *)
(* from the whole numbers -MaxIn..MaxIn, and the program's default voltage *)
(* and load resistance.                                                    *)
(***************************************************************************)
MaxIn == 2

CalcInputs ==
  [Vp : (-MaxIn..MaxIn) \cup {defaultVoltage},
   Np : -MaxIn..MaxIn,
   Ns : -MaxIn..MaxIn,
   R  : (-MaxIn..MaxIn) \cup {loadResistance}]

InitCalc ==
  /\ lastX = Undefined
  /\ lastY = Undefined
  /\ path = << >>
  /\ call = NoCall
  /\ nCalls = 0
  /\ pc = [k \in Constructions |-> 0]
  /\ trace = NoTrace
  /\ args \in CalcInputs
  /\ results = NoResults
  /\ InitComponents

\* TransformerCanvas.tsx lines 71-80: the results are computed from the
\* present arguments
calculate ==
  /\ results' = calculateTransformerResults(args.Vp, args.Np, args.Ns, args.R)
  /\ UNCHANGED << args, flattenerVars, builderVars, componentVars >>

NextCalc == calculate

SpecCalc == InitCalc /\ [][NextCalc]_vars

(***************************************************************************)
(* SpecCanvas: the component TransformerCanvas with its hook useP5Sketch.  *)
(* The sliders and the reset button set the state, React renders the state *)
(* that was set and runs the effects whose dependencies changed, the       *)
(* import of p5 settles at any moment, the effect of the hook runs again   *)
(* when its dependencies change, and the component unmounts: React         *)
(* detaches the ref, then runs the clean-up of the effect.                 *)
(***************************************************************************)
\* Bounds of the model: the effect of the hook runs at most MaxEffects
\* times; the windings offered are 1..MaxTurns.
MaxEffects == 2

MaxTurns == 2

Turns == 1..MaxTurns

Voltages == { 0, defaultVoltage }

\* useP5Sketch.tsx lines 72-73
NewRun == [isMounted |-> TRUE, settled |-> FALSE, p5Instance |-> "null"]

\* useP5Sketch.tsx lines 91-97
cleanup(r) ==
  [r EXCEPT !.isMounted = FALSE,
            !.p5Instance = IF @ = "live" THEN "removed" ELSE @]

\* React runs the clean-up of the latest run of an effect, if there is one
CleanLast(runs) ==
  IF runs = << >> THEN runs ELSE [runs EXCEPT ![Len(runs)] = cleanup(@)]

\* useP5Sketch.tsx lines 71-76 and 98: the effect runs, after the clean-up
\* of its previous run, and starts the import
useP5SketchEffect ==
  /\ hook.phase = "mounted"
  /\ Len(hook.runs) < MaxEffects
  /\ hook' = [hook EXCEPT !.runs = Append(CleanLast(@), NewRun)]
  /\ UNCHANGED << ui, rendered, latestState, drawing, resetDone >>

importThen_IgnoresUnmount(i) ==
  /\ i \in 1..Len(hook.runs)
  /\ ~ hook.runs[i].settled
  /\ IF ~ hook.containerRef
       THEN /\ hook' = [hook EXCEPT !.runs[i].settled = TRUE]
            /\ UNCHANGED ui
       ELSE /\ hook' = [hook EXCEPT !.runs[i].settled = TRUE,
                                    !.runs[i].p5Instance = "live",
                                    !.setCalls = @ + 1]
            /\ ui' = [ui EXCEPT !.p5Instance = i]
  /\ UNCHANGED << rendered, latestState, drawing, resetDone >>

\* useP5Sketch.tsx lines 76-88: the import of run i resolves
importThen(i) ==
  /\ i \in 1..Len(hook.runs)
  /\ ~ hook.runs[i].settled
  /\ IF ~ hook.runs[i].isMounted \/ ~ hook.containerRef
       THEN /\ hook' = [hook EXCEPT !.runs[i].settled = TRUE]
            /\ UNCHANGED ui
       ELSE /\ hook' = [hook EXCEPT !.runs[i].settled = TRUE,
                                    !.runs[i].p5Instance = "live",
                                    !.setCalls = @ + 1]
            /\ ui' = [ui EXCEPT !.p5Instance = i]
  /\ UNCHANGED << rendered, latestState, drawing, resetDone >>

\* the component leaves the page: React detaches containerRef
unmount ==
  /\ hook.phase = "mounted"
  /\ hook' = [hook EXCEPT !.phase = "detached", !.containerRef = FALSE]
  /\ UNCHANGED << ui, rendered, latestState, drawing, resetDone >>

\* useP5Sketch.tsx lines 91-97, run by React on unmount
cleanupOnUnmount ==
  /\ hook.phase = "detached"
  /\ hook' = [hook EXCEPT !.phase = "unmounted", !.runs = CleanLast(@)]
  /\ UNCHANGED << ui, rendered, latestState, drawing, resetDone >>

\* ControlPanel, part_005 line 148
setPrimaryVoltage(v) ==
  /\ hook.phase = "mounted"
  /\ ui' = [ui EXCEPT !.primaryVoltage = v]
  /\ resetDone' = FALSE
  /\ UNCHANGED << rendered, latestState, hook, drawing >>

\* ControlPanel, part_005 line 157
setPrimaryTurns(n) ==
  /\ hook.phase = "mounted"
  /\ ui' = [ui EXCEPT !.primaryTurns = n]
  /\ resetDone' = FALSE
  /\ UNCHANGED << rendered, latestState, hook, drawing >>

\* ControlPanel, part_005 line 166
setSecondaryTurns(n) ==
  /\ hook.phase = "mounted"
  /\ ui' = [ui EXCEPT !.secondaryTurns = n]
  /\ resetDone' = FALSE
  /\ UNCHANGED << rendered, latestState, hook, drawing >>

\* reset that leaves the voltage as it is
reset_KeepsVoltage ==
  /\ hook.phase = "mounted"
  /\ ui' = [ui EXCEPT !.primaryTurns = 1, !.secondaryTurns = 1]
  /\ resetDone' = TRUE
  /\ UNCHANGED << rendered, latestState, hook, drawing >>

\* TransformerCanvas.tsx lines 155-160
reset ==
  /\ hook.phase = "mounted"
  /\ ui' = [ui EXCEPT !.primaryVoltage = defaultVoltage,
                      !.primaryTurns = 1, !.secondaryTurns = 1]
  /\ resetDone' = TRUE
  /\ UNCHANGED << rendered, latestState, hook, drawing >>

\* TransformerCanvas.tsx lines 107-115: p.draw reads latestState.current
draw(inst, current) ==
  [drawn |-> current, by |-> inst, tick |-> 1 - drawing.tick]

redrawEffect_OnInstanceOnly(prev, now, current) ==
  IF now.p5Instance # prev.p5Instance /\ now.p5Instance # 0
    THEN draw(now.p5Instance, current)
    ELSE drawing

\* TransformerCanvas.tsx lines 130-135: the effect with the dependencies
\* [primaryTurns, secondaryTurns, p5Instance], after a render of the state
\* now that follows a render of the state prev
redrawEffect(prev, now, current) ==
  IF /\ \/ now.primaryTurns # prev.primaryTurns
        \/ now.secondaryTurns # prev.secondaryTurns
        \/ now.p5Instance # prev.p5Instance
     /\ now.p5Instance # 0
    THEN draw(now.p5Instance, current)
    ELSE drawing

\* TransformerCanvas.tsx lines 28-135: React renders the state that was
\* set (line 65 stores the turn counts in the ref), then runs the effects
render ==
  /\ hook.phase = "mounted"
  /\ ui # rendered
  /\ rendered' = ui
  /\ latestState' = TurnsOf(ui)
  /\ drawing' = redrawEffect(rendered, ui, latestState')
  /\ UNCHANGED << ui, hook, resetDone >>

\* what the steps of the canvas leave alone
notCanvasVars ==
  << flattenerVars, builderVars, calcVars, panelVars, probeVars,
     drawVars >>

NextCanvas ==
  \/ useP5SketchEffect /\ UNCHANGED notCanvasVars
  \/ \E i \in 1..MaxEffects :
       importThen(i) /\ UNCHANGED notCanvasVars
  \/ unmount /\ UNCHANGED notCanvasVars
  \/ cleanupOnUnmount /\ UNCHANGED notCanvasVars
  \/ \E v \in Voltages :
       setPrimaryVoltage(v)
         /\ UNCHANGED notCanvasVars
  \/ \E n \in Turns :
       setPrimaryTurns(n) /\ UNCHANGED notCanvasVars
  \/ \E n \in Turns :
       setSecondaryTurns(n)
         /\ UNCHANGED notCanvasVars
  \/ reset /\ UNCHANGED notCanvasVars
  \/ render /\ UNCHANGED notCanvasVars

SpecCanvas == Init /\ [][NextCanvas]_vars

(***************************************************************************)
(* SpecPanel: one DraggablePanel, used as ResultsPanel uses it (not        *)
(* draggable, initialPosition a new object at every render of the parent)  *)
(* or as ControlPanel uses it (draggable, initialPosition kept in the      *)
(* parent's state), and the mouse events of the page in any order.  React  *)
(* renders after each handler and re-runs the effects whose dependencies   *)
(* changed before the next event is delivered.                             *)
(***************************************************************************)
\* part_005 line 121: the initial position of the ControlPanel
ControlPanelPositions == { [x |-> w - 300, y |-> 32] : w \in WindowWidths }

Panels ==
  { NewPanel(FALSE, FALSE, ResultsPanelPosition) }
    \cup { NewPanel(TRUE, TRUE, p) : p \in ControlPanelPositions }

InitPanel ==
  /\ lastX = Undefined
  /\ lastY = Undefined
  /\ path = << >>
  /\ call = NoCall
  /\ nCalls = 0
  /\ pc = [k \in Constructions |-> 0]
  /\ trace = NoTrace
  /\ args = DefaultArgs
  /\ results = NoResults
  /\ InitCanvas
  /\ panel \in Panels
  /\ listeners = dragEffect(panel)
  /\ events = << >>
  /\ pointer = NoPointer
  /\ InitProbe
  /\ prog = NoProgram

\* DraggablePanel.tsx lines 47-50: the effect with the dependency
\* [initialPosition], run after the first render and after every render
\* with a new initialPosition object
positionEffect ==
  /\ ~ panel.isReady \/ ~ panel.stableProp
  /\ panel' = [panel EXCEPT !.position = panel.initialPosition,
                            !.isReady = TRUE]
  /\ listeners' = dragEffect(panel')
  /\ UNCHANGED << events, pointer >>

handleMouseDown_IgnoresIsDraggable(e, onControl) ==
  IF onControl
    THEN UNCHANGED << panel, listeners >>
    ELSE /\ panel' = [panel EXCEPT
                        !.isDragging = TRUE,
                        !.dragOffset = [x |-> e.x - panel.position.x,
                                        y |-> e.y - panel.position.y]]
         /\ listeners' = dragEffect(panel')

\* DraggablePanel.tsx lines 56-67; onControl: the target is inside an
\* input or a button
handleMouseDown(e, onControl) ==
  IF ~ panel.isDraggable \/ onControl
    THEN UNCHANGED << panel, listeners >>
    ELSE /\ panel' = [panel EXCEPT
                        !.isDragging = TRUE,
                        !.dragOffset = [x |-> e.x - panel.position.x,
                                        y |-> e.y - panel.position.y]]
         /\ listeners' = dragEffect(panel')

\* handleMouseMove that puts the corner of the panel under the mouse
handleMouseMove_IgnoresOffset(e) ==
  IF ~ listeners.isDragging
    THEN UNCHANGED << panel, listeners >>
    ELSE /\ panel' = [panel EXCEPT !.position = [x |-> e.x, y |-> e.y]]
         /\ listeners' = dragEffect(panel')

\* DraggablePanel.tsx lines 73-81, with the isDragging and dragOffset of
\* the render whose effect added the listener
handleMouseMove(e) ==
  IF ~ listeners.isDragging
    THEN UNCHANGED << panel, listeners >>
    ELSE /\ panel' = [panel EXCEPT
                        !.position = [x |-> e.x - listeners.dragOffset.x,
                                      y |-> e.y - listeners.dragOffset.y]]
         /\ listeners' = dragEffect(panel')

\* handleMouseUp that does not end the drag
handleMouseUp_KeepsDragging ==
  UNCHANGED << panel, listeners >>

\* DraggablePanel.tsx line 82
handleMouseUp ==
  /\ panel' = [panel EXCEPT !.isDragging = FALSE]
  /\ listeners' = dragEffect(panel')

\* a mousedown on the header of the panel (line 107), rendered once the
\* panel is ready (line 98)
mousedown(e, onControl) ==
  /\ panel.isReady
  /\ Len(events) < MaxEvents
  /\ handleMouseDown(e, onControl)
  /\ events' = Append(events, "mousedown")
  /\ pointer' = IF panel.isDraggable /\ ~ onControl
                  THEN [down |-> e, origin |-> panel.position]
                  ELSE pointer

\* a mousemove anywhere in the window (line 86)
mousemove(e) ==
  /\ Len(events) < MaxEvents
  /\ IF listeners.attached
       THEN handleMouseMove(e)
       ELSE UNCHANGED << panel, listeners >>
  /\ events' = Append(events, "mousemove")
  /\ UNCHANGED pointer

\* a mouseup anywhere in the window (line 87)
mouseup ==
  /\ Len(events) < MaxEvents
  /\ IF listeners.attached
       THEN handleMouseUp
       ELSE UNCHANGED << panel, listeners >>
  /\ events' = Append(events, "mouseup")
  /\ UNCHANGED pointer

\* what the steps of the panel leave alone
notPanelVars ==
  << flattenerVars, builderVars, calcVars, canvasVars, probeVars,
     drawVars >>

NextPanel ==
  \/ positionEffect
       /\ UNCHANGED notPanelVars
  \/ \E e \in Mouse, onControl \in BOOLEAN :
       mousedown(e, onControl)
         /\ UNCHANGED notPanelVars
  \/ \E e \in Mouse :
       mousemove(e)
         /\ UNCHANGED notPanelVars
  \/ mouseup
       /\ UNCHANGED notPanelVars

SpecPanel == InitPanel /\ [][NextPanel]_vars

(***************************************************************************)
(* SpecDistance: getDistanceToLine applied once to a point P = (px, py)    *)
(* and a segment from A = (x1, y1) to B = (x2, y2) at the whole pixels     *)
(* 0..MaxProbe.                                                            *)
(***************************************************************************)
MaxProbe == 3

ProbeCoords == { Fin(k, 0) : k \in 0..MaxProbe }

InitDistance ==
  /\ lastX = Undefined
  /\ lastY = Undefined
  /\ path = << >>
  /\ call = NoCall
  /\ nCalls = 0
  /\ pc = [k \in Constructions |-> 0]
  /\ trace = NoTrace
  /\ args = DefaultArgs
  /\ results = NoResults
  /\ InitCanvas
  /\ InitResultsPanel
  /\ probe \in [px : ProbeCoords, py : ProbeCoords, x1 : ProbeCoords,
                y1 : ProbeCoords, x2 : ProbeCoords, y2 : ProbeCoords]
  /\ measured = NotTested
  /\ prog = NoProgram

\* Slider.tsx lines 99-120, called once
measure ==
  /\ measured = NotTested
  /\ measured' = getDistanceToLine(probe.px, probe.py, probe.x1, probe.y1,
                                   probe.x2, probe.y2)
  /\ UNCHANGED << probe, flattenerVars, builderVars, calcVars, canvasVars,
                  panelVars, drawVars >>

NextDistance == measure

SpecDistance == InitDistance /\ [][NextDistance]_vars

(***************************************************************************)
(* The shape builders.  Each is the list of the calls it makes, in order:  *)
(* p5's beginShape, myVertex and myQuadraticVertex, with their arguments.  *)
(***************************************************************************)
\* JavaScript a <= b and Math.min(a, b) of finite numbers
LessEq(a, b) == LET E == Max(a.e, b.e) IN Scaled(a, E) <= Scaled(b, E)

MathMin(a, b) == IF LessEq(a, b) THEN a ELSE b

\* JavaScript a * (t / 10), exact when a * t / 5 is whole
TimesTenths(a, t) == Fin((a.n * t) \div 5, a.e + 1)

ShapeStart ==
  [op |-> "beginShape", cx |-> Undefined, cy |-> Undefined,
   x |-> Undefined, y |-> Undefined]

Vertex(x, y) ==
  [op |-> "myVertex", cx |-> Undefined, cy |-> Undefined, x |-> x, y |-> y]

Curve(cx, cy, x, y) ==
  [op |-> "myQuadraticVertex", cx |-> cx, cy |-> cy, x |-> x, y |-> y]

\* the calls of a list, marked as made by the builder b
By(b, calls) ==
  [i \in 1..Len(calls) |->
     [by |-> b, op |-> calls[i].op, cx |-> calls[i].cx, cy |-> calls[i].cy,
      x |-> calls[i].x, y |-> calls[i].y]]

\* vRect whose rounded outline starts at the corner (left, top) itself
vRect_StartsAtCorner(centerX, centerY, width, height, radius, direction) ==
  LET left == Minus(centerX, Half(width))
      top == Minus(centerY, Half(height))
      right == Plus(centerX, Half(width))
      bottom == Plus(centerY, Half(height))
      r == MathMin(radius, MathMin(Half(width), Half(height)))
  IN  IF LessEq(r, Fin(0, 0))
      THEN IF direction = "ccw"
           THEN << Vertex(left, bottom), Vertex(right, bottom),
                   Vertex(right, top), Vertex(left, top) >>
           ELSE << Vertex(left, top), Vertex(right, top),
                   Vertex(right, bottom), Vertex(left, bottom) >>
      ELSE IF direction = "cw"
      THEN << Vertex(left, top),
              Vertex(Minus(right, r), top),
              Curve(right, top, right, Plus(top, r)),
              Vertex(right, Minus(bottom, r)),
              Curve(right, bottom, Minus(right, r), bottom),
              Vertex(Plus(left, r), bottom),
              Curve(left, bottom, left, Minus(bottom, r)),
              Vertex(left, Plus(top, r)),
              Curve(left, top, Plus(left, r), top) >>
      ELSE << Vertex(left, bottom),
              Vertex(Minus(right, r), bottom),
              Curve(right, bottom, right, Minus(bottom, r)),
              Vertex(right, Plus(top, r)),
              Curve(right, top, Minus(right, r), top),
              Vertex(Plus(left, r), top),
              Curve(left, top, left, Plus(top, r)),
              Vertex(left, Minus(bottom, r)),
              Curve(left, bottom, Plus(left, r), bottom) >>

\* vRect.ts lines 18-93
vRect(centerX, centerY, width, height, radius, direction) ==
  LET left == Minus(centerX, Half(width))
      top == Minus(centerY, Half(height))
      right == Plus(centerX, Half(width))
      bottom == Plus(centerY, Half(height))
      r == MathMin(radius, MathMin(Half(width), Half(height)))
  IN  IF LessEq(r, Fin(0, 0))
      THEN IF direction = "ccw"
           THEN << Vertex(left, bottom), Vertex(right, bottom),
                   Vertex(right, top), Vertex(left, top) >>
           ELSE << Vertex(left, top), Vertex(right, top),
                   Vertex(right, bottom), Vertex(left, bottom) >>
      ELSE IF direction = "cw"
      THEN << Vertex(Plus(left, r), top),
              Vertex(Minus(right, r), top),
              Curve(right, top, right, Plus(top, r)),
              Vertex(right, Minus(bottom, r)),
              Curve(right, bottom, Minus(right, r), bottom),
              Vertex(Plus(left, r), bottom),
              Curve(left, bottom, left, Minus(bottom, r)),
              Vertex(left, Plus(top, r)),
              Curve(left, top, Plus(left, r), top) >>
      ELSE << Vertex(Plus(left, r), bottom),
              Vertex(Minus(right, r), bottom),
              Curve(right, bottom, right, Minus(bottom, r)),
              Vertex(right, Plus(top, r)),
              Curve(right, top, Minus(right, r), top),
              Vertex(Plus(left, r), top),
              Curve(left, top, left, Plus(top, r)),
              Vertex(left, Minus(bottom, r)),
              Curve(left, bottom, Plus(left, r), bottom) >>

\* insideContour without its first two vertices
insideContour_CurveFirst(centerX, centerY, width, height, radius, thickness) ==
  LET innerTop == Minus(centerY, Half(Half(height)))
      innerLeft == Minus(centerX, Half(Half(width)))
      innerRight == Plus(innerLeft, Half(width))
      cornerY == Minus(Plus(innerTop, Half(height)), thickness)
      startX == Plus(innerLeft, thickness)
  IN  << Curve(startX, cornerY, Plus(startX, radius), cornerY),
         Vertex(innerRight, cornerY),
         Vertex(innerRight, innerTop) >>

\* insideContour, part_000 lines 18-50
insideContour(centerX, centerY, width, height, radius, thickness) ==
  LET innerTop == Minus(centerY, Half(Half(height)))
      innerLeft == Minus(centerX, Half(Half(width)))
      innerRight == Plus(innerLeft, Half(width))
      cornerY == Minus(Plus(innerTop, Half(height)), thickness)
      startX == Plus(innerLeft, thickness)
  IN  << Vertex(startX, innerTop),
         Vertex(startX, Minus(cornerY, radius)),
         Curve(startX, cornerY, Plus(startX, radius), cornerY),
         Vertex(innerRight, cornerY),
         Vertex(innerRight, innerTop) >>

\* cubicBorders.ts lines 12-65
cubicBorders(centerX, centerY, width, height, radius, thickness) ==
  LET r == radius
      left == Minus(centerX, Half(width))
      right == Plus(centerX, Half(width))
      top == Minus(centerY, Half(height))
      bottom == Plus(centerY, Half(height))
      extTop == Minus(top, thickness)
      extRight == Plus(right, thickness)
      extBottom == Minus(bottom, thickness)
      v2_x == Plus(left, thickness)
  IN  << ShapeStart,
         Vertex(left, top),
         Vertex(v2_x, extTop),
         Vertex(Minus(extRight, r), extTop),
         Curve(extRight, extTop, extRight, Plus(extTop, r)),
         Vertex(extRight, Minus(extBottom, r)),
         Curve(extRight, extBottom, Minus(extRight, r), extBottom),
         Vertex(right, bottom),
         Vertex(right, Plus(top, r)),
         Curve(right, top, Minus(right, r), top) >>

\* coil, part_003 lines 17-76
coil(centerX, centerY, width, height, radius, thickness, index) ==
  LET COIL_GAP == 20
      yOffset == Fin(-COIL_GAP * index, 0)
      quarter == Half(Half(height))
      coilLeft == Minus(centerX, Half(width))
      coilRightPost == Minus(centerX, Half(Half(width)))
      coilBottomY == Plus(Plus(centerY, quarter), yOffset)
      coilTopArcY == Plus(Minus(Plus(centerY, quarter), radius), yOffset)
      coilPreCurveY == Plus(Minus(Plus(centerY, quarter), thickness), yOffset)
      coilFinalCurveY ==
        Plus(Minus(Minus(Plus(centerY, quarter), thickness), radius), yOffset)
  IN  << ShapeStart,
         Vertex(coilLeft, Minus(coilBottomY, TimesTenths(radius, 15))),
         Curve(Minus(coilLeft, TimesTenths(radius, 21)), coilBottomY,
               coilLeft, coilBottomY),
         Vertex(Minus(coilRightPost, Plus(radius, radius)), coilBottomY),
         Curve(Plus(coilRightPost, radius), coilBottomY,
               Plus(coilRightPost, TimesTenths(radius, 15)), coilTopArcY),
         Vertex(Plus(Plus(coilRightPost, thickness), radius), coilPreCurveY),
         Curve(Plus(Plus(coilRightPost, thickness), radius), coilFinalCurveY,
               Plus(coilRightPost, thickness), coilFinalCurveY) >>

\* drawOuterCore, part_004 lines 14-39
drawOuterCore(centerX, centerY, w, h, radius, thickness) ==
  By(<< "drawOuterCore", 1 >>, << ShapeStart >>)
    \o By(<< "vRect", 1 >>, vRect(centerX, centerY, w, h, radius, "cw"))
    \o By(<< "insideContour", 1 >>,
          insideContour(centerX, centerY, w, h, radius, thickness))

\* drawInnerCore.ts lines 14-42
drawInnerCore(centerX, centerY, w, h, radius, thickness) ==
  By(<< "drawInnerCore", 2 >>, << ShapeStart >>)
    \o By(<< "vRect", 2 >>,
          vRect(centerX, centerY, Half(w), Half(h), radius, "cw"))
    \o By(<< "insideContour", 2 >>,
          insideContour(centerX, centerY, w, h, radius, thickness))

RECURSIVE coils(_, _, _, _, _, _, _, _, _)

\* drawWindingsAndLeads, part_002 lines 31-33 and 45-47: the loop over the
\* coils i..turns-1 of a winding, whose builders are numbered from first
coils(first, i, turns, centerX, centerY, w, h, radius, thickness) ==
  IF i >= turns THEN << >>
  ELSE By(<< "coil", first + i >>,
          coil(centerX, centerY, w, h, radius, thickness, i))
         \o coils(first, i + 1, turns, centerX, centerY, w, h, radius,
                  thickness)

\* transformer.ts lines 17-69, on a canvas of width pWidth
transformer(pWidth, primaryTurns, secondaryTurns) ==
  LET centerX == Minus(Half(Fin(pWidth, 0)), Fin(70, 0))
      centerY == Fin(350, 0)
      w == Fin(400, 0)
      h == Fin(400, 0)
      thickness == Fin(70, 0)
      radius == Fin(5, 0)
      secondaryX == Plus(Plus(centerX, Half(w)), Half(Half(w)))
  IN  By(<< "cubicBorders", 1 >>,
         cubicBorders(centerX, centerY, w, h, radius, thickness))
        \o drawOuterCore(centerX, centerY, w, h, radius, thickness)
        \o drawInnerCore(centerX, centerY, w, h, radius, thickness)
        \o coils(1, 0, primaryTurns, centerX, centerY, w, h, radius,
                 thickness)
        \o coils(primaryTurns + 1, 0, secondaryTurns, secondaryX, centerY,
                 w, h, radius, thickness)

(***************************************************************************)
(* SpecDraw: the module is loaded, then either p.draw runs transformer, up *)
(* to MaxDraws times with any turn counts, or one rectangle is drawn by    *)
(* vRect on its own, with sides and radius from small sets and in either   *)
(* direction.  Each step makes the next call of the list.                  *)
(***************************************************************************)
MaxDraws == 2

MaxSide == 3

MaxRadius == 2

InitDraw ==
  /\ lastX = Undefined
  /\ lastY = Undefined
  /\ path = << >>
  /\ call = NoCall
  /\ nCalls = 0
  /\ pc = [k \in Constructions |-> 0]
  /\ trace = NoTrace
  /\ args = DefaultArgs
  /\ results = NoResults
  /\ InitCanvas
  /\ InitResultsPanel
  /\ InitProbe
  /\ \E w \in WindowWidths : prog = [NoProgram EXCEPT !.width = w]

\* TransformerCanvas.tsx lines 107-115: p.draw calls transformer with the
\* turn counts of latestState.current
startDraw(primaryTurns, secondaryTurns) ==
  /\ prog.at = 0
  /\ prog.draws < MaxDraws
  /\ prog' = [prog EXCEPT
                !.calls = transformer(prog.width, primaryTurns,
                                      secondaryTurns),
                !.at = 1,
                !.draws = @ + 1]
  /\ UNCHANGED flattenerVars

\* a rectangle drawn on its own, between beginShape and endShape
startRect(width, height, radius, direction) ==
  /\ prog.at = 0
  /\ prog.draws = 0
  /\ prog' = [prog EXCEPT
                !.calls = By(<< "shape", 0 >>, << ShapeStart >>)
                            \o By(<< "vRect", 0 >>,
                                  vRect(Fin(MaxSide, 0), Fin(MaxSide, 0),
                                        Fin(width, 0), Fin(height, 0),
                                        Fin(radius, 0), direction)),
                !.rect = [width |-> width, height |-> height,
                          radius |-> radius, direction |-> direction],
                !.at = 1,
                !.draws = MaxDraws]
  /\ UNCHANGED flattenerVars

\* the next call of the list is made
step ==
  /\ prog.at > 0
  /\ LET c == prog.calls[prog.at]
     IN  /\ CASE c.op = "beginShape" -> beginShape
              [] c.op = "myVertex" -> myVertex(c.x, c.y)
              [] c.op = "myQuadraticVertex" ->
                   myQuadraticVertex(c.cx, c.cy, c.x, c.y)
         /\ prog' = [prog EXCEPT
                       !.at = IF prog.at = Len(prog.calls) THEN 0 ELSE @ + 1,
                       !.calls = IF prog.at = Len(prog.calls) THEN << >> ELSE @,
                       !.made = c,
                       !.prev = IF prog.made.op = "beginShape"
                                  THEN @ ELSE prog.made,
                       !.first = IF c.by = prog.made.by THEN @ ELSE c,
                       !.ends = \/ prog.at = Len(prog.calls)
                                \/ prog.calls[prog.at + 1].by # c.by]

\* what the steps of a drawing leave alone
notDrawVars ==
  << builderVars, calcVars, canvasVars, panelVars, probeVars >>

NextDraw ==
  \/ \E primaryTurns, secondaryTurns \in Turns :
       startDraw(primaryTurns, secondaryTurns) /\ UNCHANGED notDrawVars
  \/ \E width, height \in 1..MaxSide, radius \in 0..MaxRadius,
        direction \in { "cw", "ccw" } :
       startRect(width, height, radius, direction) /\ UNCHANGED notDrawVars
  \/ step /\ UNCHANGED notDrawVars

SpecDraw == InitDraw /\ [][NextDraw]_vars

(***************************************************************************)
(* Claims.                                                                 *)
(***************************************************************************)
Initialised == lastX # Undefined /\ lastY # Undefined

IsCurveCall == call.op = "myQuadraticVertex"

Last(s) == s[Len(s)]

\* C1: a myQuadraticVertex call made with an initialised cursor emits the
\* requested end point (x2, y2) as its last point and leaves the cursor at
\* (x2, y2), however many points it emitted before.
C1_EndpointExact ==
  (IsCurveCall /\ call.x0 # Undefined /\ call.y0 # Undefined) =>
    /\ Len(call.out) >= 1
    /\ Last(call.out) = << call.x2, call.y2 >>
    /\ Last(path) = << call.x2, call.y2 >>
    /\ lastX = call.x2
    /\ lastY = call.y2

\* a curve from an initialised cursor that emitted intermediate points
C1_Witness ==
  /\ IsCurveCall
  /\ IsFinite(call.x0) /\ IsFinite(call.y0)
  /\ Len(call.out) >= 3
  /\ lastX = call.x2 /\ lastY = call.y2

\* C2: every myVertex step appends exactly the one point (x, y) to the path
\* and sets the cursor to (x, y); the call is possible in every state,
\* whatever the cursor was (the model only stops giving calls to a shape
\* that has had MaxCalls of them).
C2_VertexAppendsOne ==
  /\ [][call'.op = "myVertex" =>
          /\ path' = Append(path, << call'.x2, call'.y2 >>)
          /\ lastX' = call'.x2
          /\ lastY' = call'.y2]_vars
  /\ [](nCalls < MaxCalls =>
          \A x, y \in SeqCoords : ENABLED myVertex(x, y))

\* myVertex called while the cursor had never been set
C2_Witness ==
  /\ call.op = "myVertex"
  /\ call.x0 = Undefined /\ call.y0 = Undefined
  /\ path = << << call.x2, call.y2 >> >>
  /\ lastX = call.x2 /\ lastY = call.y2

\* C3: an invocation of the recursion at depth d emits its end point P2 and
\* makes no further invocation if and only if d >= maxRecursionDepth or the
\* distance from P1 to the segment P0-P2 is strictly less than
\* flatnessTolerance; one below the ceiling whose distance equals the
\* tolerance is subdivided.
C3_BaseCaseIff ==
  IsCurveCall =>
    \A i \in 1..Len(call.calls) :
      LET c == call.calls[i]
          emittedAlone == c.size = 1 /\ c.out = << << c.x2, c.y2 >> >>
          dist1 == getDistanceToLine(c.x1, c.y1, c.x0, c.y0, c.x2, c.y2)
      IN  /\ emittedAlone <=>
               (c.depth >= maxRecursionDepth \/ DistLess(dist1, flatnessTolerance))
          /\ (c.depth < maxRecursionDepth /\ DistEq(dist1, flatnessTolerance))
               => c.size > 1

\* an invocation below the ceiling whose distance is exactly the tolerance,
\* and which was subdivided
C3_Witness ==
  /\ IsCurveCall
  /\ \E i \in 1..Len(call.calls) :
       LET c == call.calls[i]
       IN  /\ c.depth < maxRecursionDepth
           /\ DistEq(getDistanceToLine(c.x1, c.y1, c.x0, c.y0, c.x2, c.y2),
                     flatnessTolerance)
           /\ c.size > 1 /\ Len(c.out) >= 2

\* the two invocations made by the subdividing invocation number i of the
\* call log: the first follows it, the second follows the first's subtree
FirstHalf(log, i) == log[i + 1]

SecondHalf(log, i) == log[i + 1 + log[i + 1].size]

Mid(a, b) == Half(Plus(a, b))

\* what a subdividing invocation c must have made of its two halves a, b
SplitsAsDeCasteljau(c, a, b) ==
  LET m01  == << Mid(c.x0, c.x1), Mid(c.y0, c.y1) >>
      m12  == << Mid(c.x1, c.x2), Mid(c.y1, c.y2) >>
      m012 == << Mid(m01[1], m12[1]), Mid(m01[2], m12[2]) >>
  IN  /\ << a.x0, a.y0 >> = << c.x0, c.y0 >>
      /\ << a.x1, a.y1 >> = m01
      /\ << a.x2, a.y2 >> = m012
      /\ << b.x0, b.y0 >> = m012
      /\ << b.x1, b.y1 >> = m12
      /\ << b.x2, b.y2 >> = << c.x2, c.y2 >>
      /\ a.depth = c.depth + 1
      /\ b.depth = c.depth + 1
      /\ c.size = 1 + a.size + b.size
      /\ c.out = a.out \o b.out
      /\ Last(a.out) = m012

SplitPoint(c) ==
  << Mid(Mid(c.x0, c.x1), Mid(c.x1, c.x2)),
     Mid(Mid(c.y0, c.y1), Mid(c.y1, c.y2)) >>

Occurrences(s, p) == Cardinality({ k \in 1..Len(s) : s[k] = p })

CursorWasSet == call.x0 # Undefined /\ call.y0 # Undefined

\* C4 as claimed: a subdivided segment emits the points of (P0, M01, M012)
\* followed by the points of (M012, M12, P2), both at depth d + 1, and the
\* split point M012 appears exactly once in that output, as the last point of
\* the first half, and not at the start of the second half.
C4_SplitPointAppearsOnce ==
  (IsCurveCall /\ CursorWasSet) =>
    \A i \in 1..Len(call.calls) :
      LET c == call.calls[i]
      IN  c.size > 1 =>
            /\ SplitsAsDeCasteljau(c, FirstHalf(call.calls, i),
                                   SecondHalf(call.calls, i))
            /\ Occurrences(c.out, SplitPoint(c)) = 1
            /\ SecondHalf(call.calls, i).out[1] # SplitPoint(c)

\* C4 as amended: the same composition of the two halves; the split point is
\* emitted as the last point of the first half and the second half emits no
\* point for its start: every emitted point is the end point of exactly one
\* invocation that took the base case, so M012 is in the output once for
\* each such invocation that ends at M012.
C4_SplitStructure ==
  (IsCurveCall /\ CursorWasSet) =>
    \A i \in 1..Len(call.calls) :
      LET c == call.calls[i]
          leaves == { j \in i..(i + c.size - 1) : call.calls[j].size = 1 }
      IN  /\ Len(c.out) = Cardinality(leaves)
          /\ c.size = 1 => c.out = << << c.x2, c.y2 >> >>
          /\ c.size > 1 =>
               /\ SplitsAsDeCasteljau(c, FirstHalf(call.calls, i),
                                      SecondHalf(call.calls, i))
               /\ Occurrences(c.out, SplitPoint(c)) =
                    Cardinality({ j \in leaves :
                       << call.calls[j].x2, call.calls[j].y2 >> = SplitPoint(c) })

\* a subdivision two levels deep from a set cursor
C4_Witness ==
  /\ IsCurveCall /\ CursorWasSet
  /\ \E i \in 1..Len(call.calls) :
       /\ call.calls[i].depth = 1
       /\ call.calls[i].size > 1
       /\ Occurrences(call.calls[i].out, SplitPoint(call.calls[i])) = 1
  /\ Len(call.out) >= 3

\* C5: one myQuadraticVertex call emits at least 1 and at most
\* 2^maxRecursionDepth points, whatever the cursor and the arguments.
C5_PointCount ==
  IsCurveCall =>
    /\ Len(call.out) >= 1
    /\ Len(call.out) <= Pow2(maxRecursionDepth)
    /\ Len(path) = Len(call.out)

\* a call that emitted the full 2^maxRecursionDepth points
C5_Witness == IsCurveCall /\ Len(call.out) = Pow2(maxRecursionDepth)

\* C6: every invocation of the recursion has a depth in 0..maxRecursionDepth,
\* the first one depth 0; an invocation at depth maxRecursionDepth makes no
\* further invocation, flat or not; so a call makes at most
\* 2^(maxRecursionDepth+1) - 1 invocations, and it completes for every cursor
\* and every argument.
C6_Terminates ==
  /\ IsCurveCall =>
       /\ Len(call.calls) >= 1
       /\ Len(call.calls) <= Pow2(maxRecursionDepth + 1) - 1
       /\ call.calls[1].depth = 0
       /\ call.calls[1].size = Len(call.calls)
       /\ \A i \in 1..Len(call.calls) :
            LET c == call.calls[i]
            IN  /\ c.depth \in 0..maxRecursionDepth
                /\ c.depth = maxRecursionDepth =>
                     c.size = 1 /\ c.out = << << c.x2, c.y2 >> >>
  /\ nCalls = 0 =>
       \A cx, cy, x2, y2 \in CurveArgs :
         Len(_recursiveQuadraticVertex(lastX, lastY, cx, cy, x2, y2, 0).out) >= 1

\* an invocation at the ceiling that is not flat and still did not recurse
C6_Witness ==
  /\ IsCurveCall
  /\ \E i \in 1..Len(call.calls) :
       LET c == call.calls[i]
       IN  /\ c.depth = maxRecursionDepth
           /\ ~DistLess(getDistanceToLine(c.x1, c.y1, c.x0, c.y0, c.x2, c.y2),
                        flatnessTolerance)
           /\ c.size = 1

\* The distance from the point B(k/4) of the quadratic curve (P0, P1, P2) of
\* invocation c to the line through P0 and P2 (to the point P0 when the two
\* coincide), with 16 B(k/4) = (4-k)^2 P0 + 2k(4-k) P1 + k^2 P2.
CurveDeviation(c, k) ==
  LET E  == Max(Max(Max(c.x0.e, c.y0.e), Max(c.x1.e, c.y1.e)),
                Max(c.x2.e, c.y2.e))
      w0 == (4 - k) * (4 - k)
      w1 == 2 * k * (4 - k)
      w2 == k * k
      qx == ZOf(w0 * Scaled(c.x0, E) + w1 * Scaled(c.x1, E)
                + w2 * Scaled(c.x2, E) - 16 * Scaled(c.x0, E))
      qy == ZOf(w0 * Scaled(c.y0, E) + w1 * Scaled(c.y1, E)
                + w2 * Scaled(c.y2, E) - 16 * Scaled(c.y0, E))
      vx == ZOf(Scaled(c.x2, E) - Scaled(c.x0, E))
      vy == ZOf(Scaled(c.y2, E) - Scaled(c.y0, E))
      lenSq == ZAdd(ZMul(vx, vx), ZMul(vy, vy))
      cross == ZSub(ZMul(qx, vy), ZMul(qy, vx))
      scale == BMul(BigOf(256), BPow2(2 * E))
  IN  IF lenSq.s = 0
      THEN [nan |-> FALSE,
            num |-> ZAdd(ZMul(qx, qx), ZMul(qy, qy)).m,
            den |-> scale]
      ELSE [nan |-> FALSE,
            num |-> BMul(cross.m, cross.m),
            den |-> BMul(scale, lenSq.m)]

\* an invocation that emitted its end point because the flatness test passed
StoppedByTolerance(c) == c.size = 1 /\ c.depth < maxRecursionDepth

\* C7: when a sub-segment is emitted because the flatness test passed (not
\* because of the depth ceiling), the curve of that sub-segment stays closer
\* than flatnessTolerance to the straight line through its two end points:
\* checked at the curve's points of parameter 1/4, 1/2 and 3/4.
C7_ToleranceBoundsDeviation ==
  IsCurveCall =>
    \A i \in 1..Len(call.calls) :
      LET c == call.calls[i]
      IN  StoppedByTolerance(c) =>
            \A k \in 1..3 :
              DistLess(CurveDeviation(c, k), flatnessTolerance)

\* a sub-segment that is really curved and was accepted by the flatness test
C7_Witness ==
  /\ IsCurveCall
  /\ \E i \in 1..Len(call.calls) :
       /\ StoppedByTolerance(call.calls[i])
       /\ call.calls[i].depth > 0
       /\ CurveDeviation(call.calls[i], 2).num # << >>

\* myQuadraticVertex has no guard: it can be called when the recursion it
\* starts from the present cursor returns, with the end point as last point
CurveCompletes(cx, cy, x2, y2) ==
  Last(_recursiveQuadraticVertex(lastX, lastY, cx, cy, x2, y2, 0).out)
    = << x2, y2 >>

\* C8: the cursor is uninitialised only before the first call; a myVertex
\* call makes it initialised from either state, a myQuadraticVertex call
\* leaves an initialised cursor initialised, so no call returns it to
\* uninitialised; and there is no terminal state: both operations stay
\* callable whatever the cursor is.
C8_CursorStates ==
  /\ [][/\ Initialised => Initialised'
        /\ call'.op = "myVertex" => Initialised'
        /\ (call'.op = "myQuadraticVertex" /\ Initialised) =>
             (Initialised' /\ lastX' = call'.x2 /\ lastY' = call'.y2)]_vars
  /\ [](nCalls < MaxCalls =>
          /\ \A x, y \in SeqCoords : ENABLED myVertex(x, y)
          /\ \A cx, cy, x2, y2 \in SeqCoords : CurveCompletes(cx, cy, x2, y2))

\* a curve drawn from an initialised cursor, after a vertex
C8_Witness ==
  /\ call.op = "myQuadraticVertex"
  /\ call.x0 # Undefined
  /\ Initialised
  /\ nCalls = 2

\* what the curve call now in `call` emits when started from point p
EmitsFrom(p) ==
  _recursiveQuadraticVertex(p[1], p[2], call.cx, call.cy,
                            call.x2, call.y2, 0).out

CurveOfConstruction == IsCurveCall /\ trace.by # 0

\* C9 as claimed: with the calls of two constructions taken in any order,
\* each curve starts where the preceding call of its own construction ended
\* and emits the points it emits when its construction runs alone.
C9_NoInterference ==
  CurveOfConstruction =>
    /\ << call.x0, call.y0 >> = trace.startOf
    /\ call.out = EmitsFrom(trace.startOf)

\* C9 as amended: the cursor is the module's, shared by all constructions:
\* a curve starts where the most recent call ended, whichever construction
\* made that call, and emits the points of the curve from there; it starts
\* where its own construction's preceding call ended, and emits the points
\* it emits alone, when no call of the other construction came in between.
C9_SharedCursor ==
  CurveOfConstruction =>
    LET latest == IF trace.prevBy = trace.by THEN trace.startOf
                  ELSE trace.cursorOf[trace.prevBy]
    IN  /\ trace.prevBy # 0
        /\ << call.x0, call.y0 >> = latest
        /\ call.out = EmitsFrom(latest)
        /\ trace.prevBy = trace.by =>
             /\ << call.x0, call.y0 >> = trace.startOf
             /\ call.out = EmitsFrom(trace.startOf)

\* a curve drawn right after a call of the other construction, from the
\* point that call left and not from its own construction's point, and
\* whose points differ from those it emits alone
C9_Witness ==
  /\ CurveOfConstruction
  /\ trace.prevBy # trace.by
  /\ << call.x0, call.y0 >> = trace.cursorOf[trace.prevBy]
  /\ << call.x0, call.y0 >> # trace.startOf
  /\ call.out # EmitsFrom(trace.startOf)

\* the number v is the fraction p / q
IsFraction(v, p, q) ==
  /\ v.k = "num"
  /\ (IF v.neg THEN -v.n ELSE v.n) * q = p * v.d

Calculated == results # NoResults

\* C10: for all arguments with Np # 0 and R # 0, calculateTransformerResults
\* returns secondaryVoltage = Vp Ns / Np, secondaryCurrent = secondaryVoltage
\* / R, secondaryPower = secondaryVoltage * secondaryCurrent and primaryPower
\* = secondaryPower; for Vp = 40, Np = 1, Ns = 2, R = 10 it returns Vs = 80,
\* Is = 8, Ps = 640, Pp = 640, Ip = 16 and the type "Step-Up".
C10_TransformerFormulas ==
  Calculated =>
    /\ (args.Np # 0 /\ args.R # 0) =>
         /\ IsFraction(results.secondaryVoltage, args.Vp * args.Ns, args.Np)
         /\ IsFraction(results.secondaryCurrent,
                       args.Vp * args.Ns, args.Np * args.R)
         /\ IsFraction(results.secondaryPower,
                       args.Vp * args.Ns * args.Vp * args.Ns,
                       args.Np * args.Np * args.R)
         /\ results.primaryPower = results.secondaryPower
    /\ args = [Vp |-> 40, Np |-> 1, Ns |-> 2, R |-> 10] =>
         /\ results.secondaryVoltage = Num(80)
         /\ results.secondaryCurrent = Num(8)
         /\ results.secondaryPower = Num(640)
         /\ results.primaryPower = Num(640)
         /\ results.primaryCurrent = Num(16)
         /\ results.transformerType = "Step-Up"

\* the example has been calculated
C10_Witness ==
  /\ Calculated
  /\ args = [Vp |-> 40, Np |-> 1, Ns |-> 2, R |-> 10]
  /\ results.secondaryVoltage = Num(80)

TypeFollowsTurns ==
  /\ results.transformerType \in {"Step-Up", "Step-Down", "Isolation"}
  /\ results.transformerType = "Step-Up" <=> args.Ns > args.Np
  /\ results.transformerType = "Step-Down" <=> args.Ns < args.Np
  /\ results.transformerType = "Isolation" <=> args.Ns = args.Np

\* C11 as claimed: the type is exactly one of "Step-Up" (iff Ns > Np),
\* "Step-Down" (iff Ns < Np) and "Isolation" (iff Ns = Np), and when
\* Ns = Np the secondary voltage equals the primary voltage.
C11_TypeAndEqualVoltage ==
  Calculated =>
    /\ TypeFollowsTurns
    /\ args.Ns = args.Np => IsFraction(results.secondaryVoltage, args.Vp, 1)

\* C11 as amended: the same classification; when Ns = Np and they are not
\* zero the secondary voltage equals the primary voltage; when Ns = Np = 0
\* the type is "Isolation" and the secondary voltage is NaN (0 / 0).
C11_TypeAndEqualVoltageNonZero ==
  Calculated =>
    /\ TypeFollowsTurns
    /\ (args.Ns = args.Np /\ args.Np # 0) =>
         IsFraction(results.secondaryVoltage, args.Vp, 1)
    /\ (args.Ns = args.Np /\ args.Np = 0) =>
         /\ results.transformerType = "Isolation"
         /\ results.secondaryVoltage = NotANumber

\* equal, non-zero turns and a non-zero voltage passed through unchanged
C11_Witness ==
  /\ Calculated
  /\ args.Ns = args.Np /\ args.Np # 0 /\ args.Vp # 0
  /\ results.transformerType = "Isolation"
  /\ results.secondaryVoltage = Num(args.Vp)

NumericFields ==
  { results.secondaryVoltage, results.secondaryCurrent,
    results.secondaryPower, results.primaryPower, results.primaryCurrent }

PrimaryCurrentRule ==
  /\ args.Vp > 0 =>
       results.primaryCurrent = Over(results.primaryPower, Num(args.Vp))
  /\ ~(args.Vp > 0) => results.primaryCurrent = Num(0)

\* C12 as claimed: primaryCurrent is primaryPower / Vp when Vp > 0 and 0
\* otherwise; with Vp = 0 every returned numeric field is 0.
C12_ZeroVoltageAllZero ==
  Calculated =>
    /\ PrimaryCurrentRule
    /\ args.Vp = 0 => \A v \in NumericFields : IsZero(v)

\* C12 as amended: the same rule for primaryCurrent, so Vp is never a
\* divisor when it is 0; with Vp = 0 every numeric field is 0 provided
\* Np # 0 and R # 0.  With Vp = 0 and Np = 0 the secondary voltage is NaN
\* (0 * (Ns / 0)), and with Vp = 0, Np # 0 and R = 0 the secondary current is
\* NaN (0 / 0); the powers are then NaN too and primaryCurrent is still 0.
C12_ZeroVoltageAllZeroNonZeroDivisors ==
  Calculated =>
    /\ PrimaryCurrentRule
    /\ (args.Vp = 0 /\ args.Np # 0 /\ args.R # 0) =>
         \A v \in NumericFields : IsZero(v)
    /\ (args.Vp = 0 /\ args.Np = 0) =>
         /\ results.secondaryVoltage = NotANumber
         /\ results.primaryPower = NotANumber
         /\ results.primaryCurrent = Num(0)
    /\ (args.Vp = 0 /\ args.Np # 0 /\ args.R = 0) =>
         /\ IsZero(results.secondaryVoltage)
         /\ results.secondaryCurrent = NotANumber
         /\ results.primaryPower = NotANumber
         /\ results.primaryCurrent = Num(0)

\* no voltage on a transformer with turns and a load: everything is 0
C12_Witness ==
  /\ Calculated
  /\ args.Vp = 0 /\ args.Np # 0 /\ args.Ns # 0 /\ args.R # 0
  /\ \A v \in NumericFields : IsZero(v)

\* C13: a curve whose control point and end point both equal the cursor is
\* not subdivided and emits exactly one point, the end point.
C13_DegenerateCurve ==
  (/\ IsCurveCall
   /\ CursorWasSet
   /\ << call.cx, call.cy >> = << call.x0, call.y0 >>
   /\ << call.x2, call.y2 >> = << call.x0, call.y0 >>) =>
    /\ Len(call.calls) = 1
    /\ call.calls[1].size = 1
    /\ call.out = << << call.x2, call.y2 >> >>
    /\ path = << << call.x2, call.y2 >> >>

\* such a curve has been drawn, away from the origin
C13_Witness ==
  /\ IsCurveCall
  /\ CursorWasSet
  /\ call.x0 = Fin(MaxCoord, 0) /\ call.y0 = Fin(1, 0)
  /\ << call.cx, call.cy >> = << call.x0, call.y0 >>
  /\ << call.x2, call.y2 >> = << call.x0, call.y0 >>
  /\ Len(call.out) = 1

\* 2^16 times the coordinate of the point of parameter k / 2^8 of the curve
\* with coordinates a, b, c (cursor, control, end)
CurveAt(a, b, c, k) ==
  LET n == Pow2(maxRecursionDepth)
  IN  (n - k) * (n - k) * Scaled(a, 0) + 2 * k * (n - k) * Scaled(b, 0)
        + k * k * Scaled(c, 0)

\* point p is closer than flatnessTolerance to some point B(k / 2^8) of the
\* curve of the call
NearCurve(p) ==
  \E k \in 0..Pow2(maxRecursionDepth) :
    LET E  == 2 * maxRecursionDepth
        dx == Scaled(p[1], E) - CurveAt(call.x0, call.cx, call.x2, k)
        dy == Scaled(p[2], E) - CurveAt(call.y0, call.cy, call.y2, k)
        tol == Scaled(flatnessTolerance, E)
    IN  /\ -tol < dx /\ dx < tol
        /\ -tol < dy /\ dy < tol
        /\ dx * dx + dy * dy < tol * tol

ScenarioCall ==
  /\ IsCurveCall
  /\ << call.x0, call.y0 >> = << Fin(0, 0), Fin(0, 0) >>
  /\ << call.cx, call.cy >> = << Fin(0, 0), Fin(10, 0) >>
  /\ << call.x2, call.y2 >> = << Fin(10, 0), Fin(10, 0) >>

\* C14: from the cursor (0,0), the curve with control (0,10) and end (10,10)
\* emits a short list of points (four: (0.625, 4.375), (2.5, 7.5),
\* (5.625, 9.375), (10, 10)) that ends exactly at (10,10), and every point
\* emitted is within 0.5 of the true curve; the last two hold for every
\* curve on the coarse grid.
C14_ScenarioPoints ==
  /\ ScenarioCall =>
       call.out = << << Fin(5, 3), Fin(35, 3) >>, << Fin(5, 1), Fin(15, 1) >>,
                     << Fin(45, 3), Fin(75, 3) >>, << Fin(10, 0), Fin(10, 0) >> >>
  /\ IsCurveCall =>
       /\ Last(call.out) = << call.x2, call.y2 >>
       /\ \A i \in 1..Len(call.out) : NearCurve(call.out[i])

\* the scenario's call has been made and emitted intermediate points
C14_Witness == ScenarioCall /\ Len(call.out) > 1 /\ NearCurve(call.out[1])

\* C15: flatnessTolerance and maxRecursionDepth are 0.5 and 8 after any
\* sequence of calls, and every subdivision decision of every call is made
\* with these two values: an invocation stops iff its depth is at least 8 or
\* its distance is below 0.5.
C15_ConfigurationFixed ==
  /\ flatnessTolerance = Fin(1, 1)
  /\ maxRecursionDepth = 8
  /\ IsCurveCall =>
       \A i \in 1..Len(call.calls) :
         LET c == call.calls[i]
         IN  c.size = 1 <=>
               \/ c.depth >= 8
               \/ DistLess(getDistanceToLine(c.x1, c.y1, c.x0, c.y0,
                                             c.x2, c.y2), Fin(1, 1))

\* a curve drawn as the second call of a shape, with decisions both ways
C15_Witness ==
  /\ IsCurveCall
  /\ CursorWasSet
  /\ nCalls = 2
  /\ \E i, j \in 1..Len(call.calls) :
       call.calls[i].size > 1 /\ call.calls[j].size = 1

IsFlattenerCall(c) == c.op \in {"myVertex", "myQuadraticVertex"}

\* C16: a myVertex or myQuadraticVertex call only appends: the path after it
\* is the path before it followed by the points the call emitted, the
\* earlier points are where and what they were, and the emitted points are
\* those given by the cursor and the arguments alone, whatever the path.
C16_AppendOnly ==
  [][IsFlattenerCall(call') =>
       /\ path' = path \o call'.out
       /\ Len(path') > Len(path)
       /\ \A i \in 1..Len(path) : path'[i] = path[i]
       /\ call'.op = "myVertex" => call'.out = << << call'.x2, call'.y2 >> >>
       /\ call'.op = "myQuadraticVertex" =>
            call'.out = _recursiveQuadraticVertex(lastX, lastY,
                          call'.cx, call'.cy, call'.x2, call'.y2, 0).out]_vars

\* a curve appended several points to a path that already had one
C16_Witness ==
  /\ IsCurveCall
  /\ nCalls = 2
  /\ Len(call.out) > 1
  /\ Len(path) = 1 + Len(call.out)

Runs == 1..Len(hook.runs)

Live(i) == hook.runs[i].p5Instance = "live"

Created(i) == hook.runs[i].p5Instance # "null"

\* the import of run i settles in this step, after the clean-up of the run
SettlesAfterCleanup(i) ==
  /\ i \in Runs
  /\ ~ hook.runs[i].isMounted
  /\ ~ hook.runs[i].settled
  /\ hook'.runs[i].settled

\* C17: in every interleaving of the import, the re-runs of the effect and
\* the unmount, an instance that is not removed belongs to a run of the
\* effect that was not cleaned up, so at most one exists at any time and
\* none once the component has unmounted; setP5Instance was called once for
\* every instance created; and an import that settles after the clean-up of
\* its run creates no instance and does not call setP5Instance.
C17_SketchCleanup ==
  /\ [](/\ \A i \in Runs : Live(i) => hook.runs[i].isMounted
        /\ \A i \in Runs : hook.runs[i].isMounted => i = Len(hook.runs)
        /\ Cardinality({ i \in Runs : Live(i) }) <= 1
        /\ hook.phase = "unmounted" => \A i \in Runs : ~ Live(i)
        /\ hook.setCalls = Cardinality({ i \in Runs : Created(i) })
        /\ \A i \in Runs : Created(i) => hook.runs[i].settled)
  /\ [][\A i \in 1..MaxEffects :
          SettlesAfterCleanup(i) =>
            /\ hook'.runs[i].p5Instance = "null"
            /\ hook'.setCalls = hook.setCalls
            /\ ui' = ui]_vars

\* the component has unmounted after one run created an instance, now
\* removed, and the import of another run settled after its clean-up
C17_Witness ==
  /\ hook.phase = "unmounted"
  /\ \E i \in Runs : hook.runs[i].p5Instance = "removed"
  /\ \E i \in Runs :
       hook.runs[i].settled /\ hook.runs[i].p5Instance = "null"

\* a render in this step
Renders == rendered' # rendered

Redraws == drawing'.tick # drawing.tick

C19_StaticPanel ==
  ~ panel.isDraggable =>
    /\ ~ panel.isDragging
    /\ ~ listeners.attached
    /\ panel.dragOffset = [x |-> 0, y |-> 0]
    /\ panel.position = panel.initialPosition

\* a panel that is not draggable and is shown has been given a mousedown on
\* its header, then a mousemove and a mouseup
C19_Witness ==
  /\ ~ panel.isDraggable
  /\ panel.isReady
  /\ Len(events) >= 3
  /\ events[1] = "mousedown"
  /\ events[2] = "mousemove"
  /\ events[3] = "mouseup"

\* the whole pixel a coordinate of the probe stands for
Pixel(v) == Scaled(v, 0)

\* the distance d is the square root of p / q
IsRootOf(d, p, q) ==
  /\ ~ d.nan
  /\ BMul(d.num, BigOf(q)) = BMul(BigOf(p), d.den)

\* the distance d is at most the square root of p / q
AtMostRootOf(d, p, q) ==
  /\ ~ d.nan
  /\ ~ BLess(BMul(BigOf(p), d.den), BMul(d.num, BigOf(q)))

\* (P - A) . (B - A), the numerator of the projection parameter t
ProbeDot ==
  (Pixel(probe.px) - Pixel(probe.x1)) * (Pixel(probe.x2) - Pixel(probe.x1))
    + (Pixel(probe.py) - Pixel(probe.y1)) * (Pixel(probe.y2) - Pixel(probe.y1))

\* |B - A|^2, its denominator
ProbeLenSq ==
  (Pixel(probe.x2) - Pixel(probe.x1)) * (Pixel(probe.x2) - Pixel(probe.x1))
    + (Pixel(probe.y2) - Pixel(probe.y1)) * (Pixel(probe.y2) - Pixel(probe.y1))

\* C20: getDistanceToLine(P, A, B) returns |P - A| when A = B and when
\* t < 0, |P - B| when t > 1, and the distance from P to the line through A
\* and B when 0 <= t <= 1; the value is no greater than the distance from P
\* to any of the points A + (k / 4)(B - A), k = 0..4, of the segment.
C20_DistanceToSegment ==
  measured # NotTested =>
    LET ux == Pixel(probe.px) - Pixel(probe.x1)
        uy == Pixel(probe.py) - Pixel(probe.y1)
        vx == Pixel(probe.px) - Pixel(probe.x2)
        vy == Pixel(probe.py) - Pixel(probe.y2)
        dx == Pixel(probe.x2) - Pixel(probe.x1)
        dy == Pixel(probe.y2) - Pixel(probe.y1)
        cross == ux * dy - uy * dx
    IN  /\ ProbeLenSq = 0 => IsRootOf(measured, ux * ux + uy * uy, 1)
        /\ (ProbeLenSq # 0 /\ ProbeDot < 0)
             => IsRootOf(measured, ux * ux + uy * uy, 1)
        /\ (ProbeLenSq # 0 /\ ProbeDot > ProbeLenSq)
             => IsRootOf(measured, vx * vx + vy * vy, 1)
        /\ (ProbeLenSq # 0 /\ ProbeDot >= 0 /\ ProbeDot <= ProbeLenSq)
             => IsRootOf(measured, cross * cross, ProbeLenSq)
        /\ \A k \in 0..4 :
             AtMostRootOf(measured,
                          (4 * ux - k * dx) * (4 * ux - k * dx)
                            + (4 * uy - k * dy) * (4 * uy - k * dy),
                          16)

\* a distance was measured from a point that projects beyond B, off the
\* line through A and B
C20_Witness ==
  /\ measured # NotTested
  /\ ProbeLenSq # 0
  /\ ProbeDot > ProbeLenSq
  /\ (Pixel(probe.px) - Pixel(probe.x1)) * (Pixel(probe.y2) - Pixel(probe.y1))
       # (Pixel(probe.py) - Pixel(probe.y1)) * (Pixel(probe.x2) - Pixel(probe.x1))

\* the vector from b to a
Offset(a, b) == [x |-> a.x - b.x, y |-> a.y - b.y]

\* C21: while the panel is being dragged, dragOffset is the mouse position
\* of the mousedown that started the drag minus the position the panel had
\* then; a mousemove at e puts the panel at e - dragOffset and leaves
\* dragOffset alone, so a mousemove at the place of that mousedown puts the
\* panel back where it was then.
C21_ConstantOffset ==
  /\ [](panel.isDragging =>
          panel.dragOffset = Offset(pointer.down, pointer.origin))
  /\ [][\A e \in Mouse :
          (mousemove(e) /\ panel.isDragging) =>
            /\ panel'.position = Offset(e, panel.dragOffset)
            /\ panel'.dragOffset = panel.dragOffset
            /\ panel'.isDragging
            /\ e = pointer.down => panel'.position = pointer.origin]_vars

\* a drag has moved the panel away from where the mousedown found it
C21_Witness ==
  /\ panel.isDragging
  /\ events = << "mousedown", "mousemove" >>
  /\ panel.position # pointer.origin
  /\ panel.position # panel.initialPosition

\* a mouse event is delivered in this step
MouseEvent == events' # events

\* a mousedown was delivered and no mouseup after it
ButtonHeld ==
  \E i \in 1..Len(events) :
    /\ events[i] = "mousedown"
    /\ \A j \in (i + 1)..Len(events) : events[j] # "mouseup"

\* C22: a mouse event changes the position only if it is a mousemove
\* delivered while isDragging, and isDragging holds only after a mousedown
\* that handleMouseDown accepted and before the next mouseup; the window
\* listeners are attached exactly while isDragging; after a mouseup
\* isDragging is false and the listeners are removed; while isDragging is
\* false a mousemove and a mouseup change nothing of the panel, and only an
\* accepted mousedown starts the next drag.
C22_DragLifecycle ==
  /\ [](/\ listeners.attached <=> panel.isDragging
        /\ panel.isDragging => ButtonHeld /\ panel.isDraggable
        /\ (events # << >> /\ Last(events) = "mouseup") =>
             ~ panel.isDragging /\ ~ listeners.attached)
  /\ [][/\ (MouseEvent /\ panel'.position # panel.position) =>
             /\ panel.isDragging
             /\ Last(events') = "mousemove"
        /\ (MouseEvent /\ ~ panel.isDragging /\ Last(events') # "mousedown")
             => panel' = panel /\ listeners' = listeners
        /\ (MouseEvent /\ ~ panel.isDragging /\ panel'.isDragging) =>
             \E e \in Mouse : mousedown(e, FALSE)]_vars

\* a drag moved the panel and ended, and a mousemove came after the mouseup
C22_Witness ==
  /\ events = << "mousedown", "mousemove", "mouseup", "mousemove" >>
  /\ panel.position # panel.initialPosition
  /\ ~ panel.isDragging
  /\ ~ listeners.attached

\* C23: once reset has run, and until a slider is used again, the state
\* holds primaryVoltage = 40, primaryTurns = 1 and secondaryTurns = 1,
\* whatever it held before, and the render that follows shows these values;
\* reset leaves the p5 instance of the state alone.
C23_ResetRestoresDefaults ==
  /\ [](resetDone =>
          /\ ui.primaryVoltage = 40
          /\ ui.primaryTurns = 1
          /\ ui.secondaryTurns = 1
          /\ (rendered = ui => latestState = TurnsOf(DefaultState)))
  /\ [][(resetDone' /\ ~ resetDone) =>
          ui'.p5Instance = ui.p5Instance]_vars

\* reset has run in a state, already rendered, in which the voltage and
\* both turn counts were not the defaults
C23_Witness ==
  /\ resetDone
  /\ rendered.primaryVoltage # ui.primaryVoltage
  /\ rendered.primaryTurns # ui.primaryTurns
  /\ rendered.secondaryTurns # ui.secondaryTurns

\* C24: after every flattener call the cursor is the last point of the
\* emitted path, whatever calls came before, so a curve drawn on a path
\* that has points starts at the last of them and appends to it.
C24_CursorIsPathEnd ==
  /\ [](path # << >> => << lastX, lastY >> = Last(path))
  /\ [][(call'.op = "myQuadraticVertex" /\ nCalls' = nCalls + 1
           /\ path # << >>) =>
          /\ << call'.x0, call'.y0 >> = Last(path)
          /\ path' = path \o call'.out
          /\ << lastX', lastY' >> = Last(path')]_vars

\* a path started by myVertex and continued by a curve of several points
C24_Witness ==
  /\ nCalls = 2
  /\ call.op = "myQuadraticVertex"
  /\ Len(call.out) > 1
  /\ Len(path) = 1 + Len(call.out)
  /\ path[1] = << call.x0, call.y0 >>

RECURSIVE ParamEnd(_, _)

\* 2^8 times the parameter at which the i-th of the invocations `leaves`
\* ends, when they divide [0, 1] in order, one at depth d taking 1 / 2^d
ParamEnd(leaves, i) ==
  IF i = 0 THEN 0
  ELSE ParamEnd(leaves, i - 1) + Pow2(maxRecursionDepth - leaves[i].depth)

\* point p is the point B(k / 2^8) of the curve of the call
OnCurveAt(p, k) ==
  /\ Scaled(p[1], 2 * maxRecursionDepth)
       = CurveAt(call.x0, call.cx, call.x2, k)
  /\ Scaled(p[2], 2 * maxRecursionDepth)
       = CurveAt(call.y0, call.cy, call.y2, k)

\* C25: a curve from an initialised cursor emits one point per invocation
\* that took the base case, in call order; the i-th is the point B(t) of the
\* true curve of (cursor, control, end) at the parameter t where that
\* invocation's piece ends, t = k / 2^d with d its depth, at most
\* maxRecursionDepth; the parameters increase strictly and the last is 1.
C25_PointsOnCurve ==
  (IsCurveCall /\ call.x0 # Undefined /\ call.y0 # Undefined) =>
    LET leaves == SelectSeq(call.calls, LAMBDA c : c.base)
    IN  /\ Len(call.out) = Len(leaves)
        /\ \A i \in 1..Len(leaves) :
             /\ leaves[i].depth <= maxRecursionDepth
             /\ call.out[i] = << leaves[i].x2, leaves[i].y2 >>
             /\ OnCurveAt(call.out[i], ParamEnd(leaves, i))
             /\ ParamEnd(leaves, i)
                  % Pow2(maxRecursionDepth - leaves[i].depth) = 0
             /\ ParamEnd(leaves, i) > ParamEnd(leaves, i - 1)
        /\ ParamEnd(leaves, Len(leaves)) = Pow2(maxRecursionDepth)

\* a curve from an initialised cursor whose pieces ended at different depths
C25_Witness ==
  /\ IsCurveCall
  /\ call.x0 # Undefined
  /\ Len(call.out) >= 3
  /\ \E i, j \in 1..Len(call.calls) :
       /\ call.calls[i].base
       /\ call.calls[j].base
       /\ call.calls[i].depth # call.calls[j].depth
  /\ OnCurveAt(call.out[1], 64)

(***************************************************************************)
(* C26.  Every shape builder satisfies the flattener's precondition: in    *)
(* vRect (both directions), cubicBorders, insideContour and coil, each     *)
(* myQuadraticVertex call is preceded within the same builder by a         *)
(* myVertex or a myQuadraticVertex call, so that in any sequence of        *)
(* drawings by transformer(), and in a rectangle drawn by vRect in either  *)
(* direction, no curve starts from a cursor never set or from a cursor     *)
(* left by a different builder: the curve starts where the previous call   *)
(* of its own builder ended.                                               *)
(***************************************************************************)
CurveMade == prog.made.op = "myQuadraticVertex" /\ IsCurveCall

C26_BuildersSetCursor ==
  CurveMade =>
    /\ call.x0 # Undefined
    /\ call.y0 # Undefined
    /\ prog.prev.op \in { "myVertex", "myQuadraticVertex" }
    /\ prog.prev.by = prog.made.by
    /\ << call.x0, call.y0 >> = << prog.prev.x, prog.prev.y >>

\* the second coil of the secondary winding, in the second drawing, has
\* drawn a curve of several segments
C26_Witness ==
  /\ CurveMade
  /\ prog.draws = MaxDraws
  /\ prog.made.by = << "coil", 2 * MaxTurns >>
  /\ Len(call.out) > 1

(***************************************************************************)
(* C27.  For vRect with a positive clamped radius                          *)
(* r = min(radius, width/2, height/2), in both directions the outline is   *)
(* closed: the last point emitted, the end of the fourth corner curve, is  *)
(* the first point emitted, and the cursor after vRect is that point.      *)
(***************************************************************************)
\* the clamped radius of the vRect that made the last call: the rectangle
\* drawn on its own has its arguments in prog.rect, the rectangles of
\* transformer() have the radius 5 and sides of 400 and 200
ClampedRadius ==
  IF prog.made.by = << "vRect", 0 >>
  THEN MathMin(Fin(prog.rect.radius, 0),
               MathMin(Half(Fin(prog.rect.width, 0)),
                       Half(Fin(prog.rect.height, 0))))
  ELSE Fin(5, 0)

VRectDone == prog.made.by[1] = "vRect" /\ prog.ends

C27_VRectClosed ==
  (VRectDone /\ ~LessEq(ClampedRadius, Fin(0, 0))) =>
    /\ prog.made.op = "myQuadraticVertex"
    /\ prog.first.op = "myVertex"
    /\ path[1] = << prog.first.x, prog.first.y >>
    /\ Last(path) = path[1]
    /\ Last(call.out) = path[1]
    /\ << lastX, lastY >> = path[1]

\* a counter-clockwise rectangle whose radius of 2 is clamped to half its
\* width, 1, and whose corners are curves of several segments
C27_Witness ==
  /\ VRectDone
  /\ prog.rect = [width |-> 2, height |-> 3, radius |-> 2,
                  direction |-> "ccw"]
  /\ ClampedRadius = Fin(1, 0)
  /\ Len(call.out) > 1
  /\ Len(path) > 9

(***************************************************************************)
(* C28.  myQuadraticVertex called before any myVertex, the cursor still    *)
(* undefined, is not detected as an error: the call completes, every       *)
(* flatness test fails because the distance is not a number, the           *)
(* recursion runs to the depth ceiling everywhere and emits exactly        *)
(* 2^maxRecursionDepth points, the last of which is the exact end point,   *)
(* and the cursor is left set at the end point.                            *)
(***************************************************************************)
CursorWasUndefined == call.x0 = Undefined /\ call.y0 = Undefined

C28_UndefinedCursorRunsToCeiling ==
  (IsCurveCall /\ CursorWasUndefined) =>
    /\ Len(call.calls) = 2 * Pow2(maxRecursionDepth) - 1
    /\ \A i \in 1..Len(call.calls) :
         LET c == call.calls[i]
         IN  /\ c.depth <= maxRecursionDepth
             /\ c.depth < maxRecursionDepth =>
                  (c.tested /\ c.d = DistNaN /\ ~c.base)
             /\ c.depth = maxRecursionDepth => (c.base /\ ~c.tested)
    /\ Len(call.out) = Pow2(maxRecursionDepth)
    /\ Last(call.out) = << call.x2, call.y2 >>
    /\ IsFinite(call.x2) /\ IsFinite(call.y2)
    /\ path = call.out
    /\ lastX = call.x2
    /\ lastY = call.y2
    /\ Initialised

\* a curve drawn from the undefined cursor: 256 points, not numbers but for
\* the last, and the cursor at the end point
C28_Witness ==
  /\ IsCurveCall
  /\ CursorWasUndefined
  /\ Len(path) = 256
  /\ path[1] = << NaN, NaN >>
  /\ path[255] = << NaN, NaN >>
  /\ path[256] = << Fin(MaxCoord, 0), Fin(0, 0) >>
  /\ << lastX, lastY >> = path[256]

====
